---- MODULE Spec2Model ----
(***************************************************************************)
(* Vibe Riders: the gameplay loop of CyberpunkScene (tick, spawning,       *)
(* collision, scoring), the HoverBoard player controller, the pooled       *)
(* Obstacle and Crystal entities and the jotai game store.                 *)
(*                                                                         *)
(* Numbers are fixed point.  Lengths are in hundredths of a world unit     *)
(* (lane offset 2.5 is 250), times in hundredths of a second (the move     *)
(* cooldown 0.2 is 20), speeds in hundredths of a unit per second.  A      *)
(* product speed * deltaTime is (speed * dt) \div 100.  Math.random() is a *)
(* draw r \in Rand standing for the value r / RandDen.                     *)
(*                                                                         *)
(* Bounding boxes (THREE.Box3.setFromObject) are kept as the x and z       *)
(* extents of the group's geometry; the y extents of the board, of every   *)
(* wall and of every crystal always overlap, so intersectsBox is decided   *)
(* by x and z.  The board's roll (at most 0.3 rad) changes its x extent by *)
(* about one hundredth and the crystal's spin changes its extent between   *)
(* the inner and outer octahedron; both are kept at their nominal size.    *)
(* Audio, particles, shaders and terrain are not modelled.                 *)
(***************************************************************************)
EXTENDS Integers, Sequences, FiniteSets, TLC

VARIABLES
  \* gameStore.ts (jotai atoms, module state, localStorage)
  gameStateAtom, distanceAtom, scoreAtom, crystalCountAtom, highScoreAtom,
  initialStoreHighScore, localStorage,
  \* CyberpunkScene fields
  gameState, gameTime, nextObstacleTime, nextCrystalTime,
  obstacleSpawningActive, crystalSpawningActive,
  isExploding, explosionStartTime, ignoreNextTap, keyStates,
  obstaclePool, obstacles, crystalPool, crystals,
  \* HoverBoard fields
  hoverboard,
  \* history: what the last step did, and counters over the run
  last, hist, ticks, session

vars == <<gameStateAtom, distanceAtom, scoreAtom, crystalCountAtom, highScoreAtom,
          initialStoreHighScore, localStorage,
          gameState, gameTime, nextObstacleTime, nextCrystalTime,
          obstacleSpawningActive, crystalSpawningActive,
          isExploding, explosionStartTime, ignoreNextTap, keyStates,
          obstaclePool, obstacles, crystalPool, crystals,
          hoverboard, last, hist, ticks, session>>

-----------------------------------------------------------------------------
(* Bounds of the model *)

\* ticks (calls of update) explored in one run of the program
MaxTicks == 4
\* game time explored while a session is played, in hundredths of a second
MaxGameTime == 940
\* sessions (start commands) explored in one run of the program
MaxSessions == 2
\* Math.random() is drawn from {0/RandDen, ..., (RandDen-1)/RandDen}
RandDen == 2
\* scores offered to updateHighScore are 0..MaxScore
MaxScore == 11

Rand == 0 .. (RandDen - 1)

\* tick deltas returned by clock.getDelta(): a slow frame of 0.2 s, and a stall
\* of 8.8 s (a hidden tab), after which what spawned in the tick is at the board
Dts == {20, 880}

-----------------------------------------------------------------------------
(* Arithmetic helpers *)

Min(a, b) == IF a < b THEN a ELSE b
Max(a, b) == IF a > b THEN a ELSE b
Abs(a) == IF a < 0 THEN -a ELSE a
Sign(a) == IF a > 0 THEN 1 ELSE IF a < 0 THEN -1 ELSE 0

RECURSIVE IsqrtBetween(_, _, _)
IsqrtBetween(n, lo, hi) ==
  IF lo >= hi THEN lo
  ELSE LET mid == (lo + hi + 1) \div 2
       IN IF mid * mid <= n THEN IsqrtBetween(n, mid, hi)
                            ELSE IsqrtBetween(n, lo, mid - 1)

\* floor(sqrt(n)) for 0 <= n < 2^30
Isqrt(n) == IsqrtBetween(n, 0, 32767)

-----------------------------------------------------------------------------
(* Lane model *)

laneWidth == 250
lanes == <<-laneWidth, 0, laneWidth>>
LaneX(l) == lanes[l + 1]
LaneIds == {0, 1, 2}

-----------------------------------------------------------------------------
(* HoverBoard *)

moveCooldownDuration == 20
lateralSpeed == 1200
HoverZ == 500

HoverBoardNew ==
  [isMoving |-> FALSE, speed |-> 0, currentLane |-> 1,
   posX |-> 0, posZ |-> HoverZ, targetX |-> 0, moveCooldown |-> 0, meshX |-> 0]

startMovingKeepingLane(h) ==
  [h EXCEPT !.isMoving = TRUE, !.speed = 1200,
            !.targetX = LaneX(h.currentLane), !.posX = LaneX(h.currentLane),
            !.posZ = HoverZ, !.moveCooldown = 0]

startMoving(h) ==
  [h EXCEPT !.isMoving = TRUE, !.speed = 1200, !.currentLane = 1,
            !.targetX = LaneX(1), !.posX = LaneX(1), !.posZ = HoverZ,
            !.moveCooldown = 0]

stopMoving(h) == [h EXCEPT !.isMoving = FALSE, !.speed = 0]

moveLeftWrapping(h) ==
  IF ~h.isMoving \/ h.moveCooldown > 0 THEN h
  ELSE [h EXCEPT !.currentLane = (h.currentLane + 2) % 3,
                 !.targetX = LaneX((h.currentLane + 2) % 3),
                 !.moveCooldown = moveCooldownDuration]

moveLeft(h) ==
  IF ~h.isMoving \/ h.currentLane = 0 \/ h.moveCooldown > 0 THEN h
  ELSE [h EXCEPT !.currentLane = h.currentLane - 1,
                 !.targetX = LaneX(h.currentLane - 1),
                 !.moveCooldown = moveCooldownDuration]

moveRightToEdge(h) ==
  IF ~h.isMoving \/ h.currentLane = 2 \/ h.moveCooldown > 0 THEN h
  ELSE [h EXCEPT !.currentLane = 2,
                 !.targetX = LaneX(2),
                 !.moveCooldown = moveCooldownDuration]

moveRightIgnoringCooldown(h) ==
  IF ~h.isMoving \/ h.currentLane = 2 THEN h
  ELSE [h EXCEPT !.currentLane = h.currentLane + 1,
                 !.targetX = LaneX(h.currentLane + 1),
                 !.moveCooldown = moveCooldownDuration]

moveRight(h) ==
  IF ~h.isMoving \/ h.currentLane = 2 \/ h.moveCooldown > 0 THEN h
  ELSE [h EXCEPT !.currentLane = h.currentLane + 1,
                 !.targetX = LaneX(h.currentLane + 1),
                 !.moveCooldown = moveCooldownDuration]

getDistance(h) == IF ~h.isMoving THEN 0 ELSE Abs(h.posZ - HoverZ)

setSpeed(h, speed) == [h EXCEPT !.speed = speed]

hoverboardUpdateOverwriting(h, dt) ==
  LET cd == IF h.moveCooldown > 0 THEN h.moveCooldown - dt ELSE h.moveCooldown
      z == IF h.isMoving THEN HoverZ - (h.speed * dt) \div 100 ELSE h.posZ
      lateralDiff == h.targetX - h.posX
      x == IF Abs(lateralDiff) > 1
           THEN h.posX + Sign(lateralDiff)
                         * Min((lateralSpeed * dt) \div 100, Abs(lateralDiff))
           ELSE h.posX
  IN [h EXCEPT !.moveCooldown = cd, !.posZ = z, !.posX = x, !.meshX = x]

\* mutant: the lateral step is not cut off at the target
hoverboardUpdateOvershooting(h, dt) ==
  LET cd == IF h.moveCooldown > 0 THEN h.moveCooldown - dt ELSE h.moveCooldown
      z == IF h.isMoving THEN h.posZ - (h.speed * dt) \div 100 ELSE h.posZ
      lateralDiff == h.targetX - h.posX
      x == IF Abs(lateralDiff) > 1
           THEN h.posX + Sign(lateralDiff) * ((lateralSpeed * dt) \div 100)
           ELSE h.posX
  IN [h EXCEPT !.moveCooldown = cd, !.posZ = z, !.posX = x, !.meshX = x]

hoverboardUpdate(h, dt) ==
  LET cd == IF h.moveCooldown > 0 THEN h.moveCooldown - dt ELSE h.moveCooldown
      z == IF h.isMoving THEN h.posZ - (h.speed * dt) \div 100 ELSE h.posZ
      lateralDiff == h.targetX - h.posX
      x == IF Abs(lateralDiff) > 1
           THEN h.posX + Sign(lateralDiff)
                         * Min((lateralSpeed * dt) \div 100, Abs(lateralDiff))
           ELSE h.posX
  IN [h EXCEPT !.moveCooldown = cd, !.posZ = z, !.posX = x, !.meshX = x]

hoverboardReset(h) ==
  [h EXCEPT !.isMoving = FALSE, !.speed = 0, !.currentLane = 1,
            !.posX = LaneX(1), !.posZ = HoverZ, !.targetX = LaneX(1),
            !.moveCooldown = 0, !.meshX = LaneX(1)]

-----------------------------------------------------------------------------
(* Obstacle *)

ObstacleTypes == {"WALL", "DOUBLE_WALL"}
\* half of the edge frame's width: 3.1 * 0.8 / 2, and 3.1 * 0.65 / 2 rounded up
WallHalfWidth == 124
DoubleWallHalfWidth == 101
\* the edge frame reaches 0.2 behind the wall's centre, the grid lines 0.12 in front
WallBack == 20
WallFront == 12

\* the two lanes a double wall blocks when it is built for lane l
lanesBlocked(l) == LaneIds \ {l}

SetMin(S) == CHOOSE x \in S : \A y \in S : x <= y
SetMax(S) == CHOOSE x \in S : \A y \in S : x >= y

\* Box3.setFromObject(mesh): the walls sit at the offsets they were built with
ObstacleBox(o) ==
  LET rel == IF o.type = "WALL" THEN {0}
             ELSE {LaneX(b) - LaneX(o.builtLane) : b \in lanesBlocked(o.builtLane)}
      half == IF o.type = "WALL" THEN WallHalfWidth ELSE DoubleWallHalfWidth
  IN [x0 |-> LaneX(o.lane) + SetMin(rel) - half,
      x1 |-> LaneX(o.lane) + SetMax(rel) + half,
      z0 |-> o.z - WallBack, z1 |-> o.z + WallFront]

\* the x of each wall of a double wall: the group's x plus the offset the wall
\* was given when the group was built
WallPositions(o) ==
  {LaneX(o.lane) + LaneX(b) - LaneX(o.builtLane) : b \in lanesBlocked(o.builtLane)}

ObstacleNew(startZ) ==
  LET o == [isActive |-> TRUE, lane |-> 1, z |-> startZ, type |-> "WALL",
            builtLane |-> 1, box |-> [x0 |-> 0, x1 |-> 0, z0 |-> 0, z1 |-> 0]]
  IN [o EXCEPT !.box = ObstacleBox(o)]

ObstacleSetActive(o, active) == [o EXCEPT !.isActive = active]

ObstacleUpdate(o, dt, speed) ==
  IF ~o.isActive THEN o
  ELSE LET m == [o EXCEPT !.z = o.z + (speed * dt) \div 100]
       IN IF m.z > -1000 /\ m.z < 1500 THEN [m EXCEPT !.box = ObstacleBox(m)] ELSE m

ObstacleIsPastPlayer(o) == o.z > 1000

ObstacleReset(o, lane, startZ, type) ==
  [o EXCEPT !.lane = lane, !.z = startZ, !.isActive = TRUE,
            !.type = type,
            !.builtLane = IF type # o.type /\ type = "DOUBLE_WALL" THEN lane ELSE @]

-----------------------------------------------------------------------------
(* Crystal *)

\* radius of the outer (glow) octahedron
CrystalRadius == 70

CrystalBox(c) ==
  [x0 |-> LaneX(c.lane) - CrystalRadius, x1 |-> LaneX(c.lane) + CrystalRadius,
   z0 |-> c.z - CrystalRadius, z1 |-> c.z + CrystalRadius]

CrystalNew(lane, startZ) ==
  LET c == [isActive |-> TRUE, lane |-> lane, z |-> startZ,
            box |-> [x0 |-> 0, x1 |-> 0, z0 |-> 0, z1 |-> 0]]
  IN [c EXCEPT !.box = CrystalBox(c)]

CrystalSetActive(c, active) == [c EXCEPT !.isActive = active]

\* mutant: crystals scroll at half the speed of the track
CrystalUpdateAtHalfSpeed(c, dt, speed) ==
  IF ~c.isActive THEN c
  ELSE LET m == [c EXCEPT !.z = c.z + (speed * dt) \div 200]
       IN [m EXCEPT !.box = CrystalBox(m)]

CrystalUpdate(c, dt, speed) ==
  IF ~c.isActive THEN c
  ELSE LET m == [c EXCEPT !.z = c.z + (speed * dt) \div 100]
       IN [m EXCEPT !.box = CrystalBox(m)]

CrystalIsPastPlayer(c) == c.z > 1000

CrystalReset(c, lane, startZ) ==
  [c EXCEPT !.lane = lane, !.z = startZ, !.isActive = TRUE]

\* THREE.Box3.intersectsBox, on the x and z extents
intersectsBox(a, b) ==
  ~(b.x1 < a.x0 \/ b.x0 > a.x1 \/ b.z1 < a.z0 \/ b.z0 > a.z1)

\* the board is 0.8 wide; it reaches 1.2 ahead of and (thruster disc) 1.3 behind
\* the mesh, which update() keeps at z = 5
BoardHalfWidth == 40
BoardAhead == 120
BoardBehind == 130

HoverboardBox(h) ==
  [x0 |-> h.meshX - BoardHalfWidth, x1 |-> h.meshX + BoardHalfWidth,
   z0 |-> HoverZ - BoardAhead, z1 |-> HoverZ + BoardBehind]

-----------------------------------------------------------------------------
(* CyberpunkScene: state, pools and the game-state subscription *)

ObstaclePoolSize == 15
CrystalPoolSize == 8
ObstacleIds == 1 .. ObstaclePoolSize
CrystalIds == 1 .. CrystalPoolSize

\* the scene and store fields one tick or command reads and writes, as a record
Scene ==
  [gameStateAtom |-> gameStateAtom, distanceAtom |-> distanceAtom,
   scoreAtom |-> scoreAtom, crystalCountAtom |-> crystalCountAtom,
   gameState |-> gameState, gameTime |-> gameTime,
   nextObstacleTime |-> nextObstacleTime, nextCrystalTime |-> nextCrystalTime,
   obstacleSpawningActive |-> obstacleSpawningActive,
   crystalSpawningActive |-> crystalSpawningActive,
   isExploding |-> isExploding, explosionStartTime |-> explosionStartTime,
   ignoreNextTap |-> ignoreNextTap,
   obstaclePool |-> obstaclePool, obstacles |-> obstacles,
   crystalPool |-> crystalPool, crystals |-> crystals,
   hoverboard |-> hoverboard, hist |-> hist]

Becomes(s) ==
  /\ gameStateAtom' = s.gameStateAtom
  /\ distanceAtom' = s.distanceAtom
  /\ scoreAtom' = s.scoreAtom
  /\ crystalCountAtom' = s.crystalCountAtom
  /\ gameState' = s.gameState
  /\ gameTime' = s.gameTime
  /\ nextObstacleTime' = s.nextObstacleTime
  /\ nextCrystalTime' = s.nextCrystalTime
  /\ obstacleSpawningActive' = s.obstacleSpawningActive
  /\ crystalSpawningActive' = s.crystalSpawningActive
  /\ isExploding' = s.isExploding
  /\ explosionStartTime' = s.explosionStartTime
  /\ ignoreNextTap' = s.ignoreNextTap
  /\ obstaclePool' = s.obstaclePool
  /\ obstacles' = s.obstacles
  /\ crystalPool' = s.crystalPool
  /\ crystals' = s.crystals
  /\ hoverboard' = s.hoverboard
  /\ hist' = s.hist

initializeObstaclePool ==
  [i \in ObstacleIds |-> ObstacleSetActive(ObstacleNew(-20000), FALSE)]

initializeCrystalPool ==
  [i \in CrystalIds |-> CrystalSetActive(CrystalNew(1, -20000), FALSE)]

\* the first inactive slot of a pool, 0 when every slot is active
getObstacleFromPool(s) ==
  IF \E i \in ObstacleIds : ~s.obstaclePool[i].isActive
  THEN SetMin({i \in ObstacleIds : ~s.obstaclePool[i].isActive}) ELSE 0

getCrystalFromPoolReusing(s) ==
  IF \E i \in CrystalIds : ~s.crystalPool[i].isActive
  THEN SetMin({i \in CrystalIds : ~s.crystalPool[i].isActive})
  ELSE 1

getCrystalFromPool(s) ==
  IF \E i \in CrystalIds : ~s.crystalPool[i].isActive
  THEN SetMin({i \in CrystalIds : ~s.crystalPool[i].isActive}) ELSE 0

FirstObstacleDelay == 400
FirstCrystalDelay == 200

\* mutant: the 'playing' branch re-arms the timers and the board but leaves
\* the pooled entities as they are
handleGameStateChangeKeepingEntities(s, newState) ==
  LET g == [s EXCEPT !.gameState = newState]
  IN IF newState = "playing"
     THEN [g EXCEPT !.ignoreNextTap = TRUE,
                    !.gameTime = 0,
                    !.nextObstacleTime = FirstObstacleDelay,
                    !.nextCrystalTime = FirstCrystalDelay,
                    !.obstacleSpawningActive = TRUE,
                    !.crystalSpawningActive = TRUE,
                    !.hoverboard = startMoving(s.hoverboard)]
     ELSE IF newState = "gameOver"
     THEN [g EXCEPT !.hoverboard = stopMoving(s.hoverboard),
                    !.obstacleSpawningActive = FALSE,
                    !.crystalSpawningActive = FALSE]
     ELSE g

\* mutant: the 'playing' branch leaves the two spawn timers as they are
handleGameStateChangeKeepingTimers(s, newState) ==
  LET g == [s EXCEPT !.gameState = newState]
  IN IF newState = "playing"
     THEN [g EXCEPT !.ignoreNextTap = TRUE,
                    !.gameTime = 0,
                    !.obstacleSpawningActive = TRUE,
                    !.crystalSpawningActive = TRUE,
                    !.obstaclePool =
                       [i \in ObstacleIds |-> ObstacleSetActive(s.obstaclePool[i], FALSE)],
                    !.obstacles = <<>>,
                    !.crystalPool =
                       [i \in CrystalIds |-> CrystalSetActive(s.crystalPool[i], FALSE)],
                    !.crystals = <<>>,
                    !.hoverboard = startMoving(s.hoverboard)]
     ELSE IF newState = "gameOver"
     THEN [g EXCEPT !.hoverboard = stopMoving(s.hoverboard),
                    !.obstacleSpawningActive = FALSE,
                    !.crystalSpawningActive = FALSE]
     ELSE g

handleGameStateChange(s, newState) ==
  LET g == [s EXCEPT !.gameState = newState]
  IN IF newState = "playing"
     THEN [g EXCEPT !.ignoreNextTap = TRUE,
                    !.gameTime = 0,
                    !.nextObstacleTime = FirstObstacleDelay,
                    !.nextCrystalTime = FirstCrystalDelay,
                    !.obstacleSpawningActive = TRUE,
                    !.crystalSpawningActive = TRUE,
                    !.obstaclePool =
                       [i \in ObstacleIds |-> ObstacleSetActive(s.obstaclePool[i], FALSE)],
                    !.obstacles = <<>>,
                    !.crystalPool =
                       [i \in CrystalIds |-> CrystalSetActive(s.crystalPool[i], FALSE)],
                    !.crystals = <<>>,
                    !.hoverboard = startMoving(s.hoverboard)]
     ELSE IF newState = "gameOver"
     THEN [g EXCEPT !.hoverboard = stopMoving(s.hoverboard),
                    !.obstacleSpawningActive = FALSE,
                    !.crystalSpawningActive = FALSE]
     ELSE g

\* store.set(gameStateAtom, v): subscribers run, synchronously, only on a change
setGameStateAtom(s, v) ==
  IF s.gameStateAtom = v THEN s
  ELSE handleGameStateChange([s EXCEPT !.gameStateAtom = v], v)

-----------------------------------------------------------------------------
(* Spawning *)

minObstacleSpacing == 300
maxObstacleSpacing == 600
minCrystalSpacing == 200
maxCrystalSpacing == 400
ObstacleStartZ == -14000
CrystalStartZ == -13000
\* distance after which double walls appear
DoubleWallDistance == 50000

\* mutant: the factor keeps growing past 1
speedFactorUncapped(distance) == distance \div 100

\* Math.min(distance / 1000, 1), in thousandths
speedFactor(distance) == Min(distance \div 100, 1000)

\* floor(Math.random() * n) for the draw r
RandomIndex(r, n) == (r * n) \div RandDen

\* Math.random() < Math.min(0.4, (distance - 500) / 2000) for the draw r
doubleWallChosen(r, distance) ==
  r * 10 < 4 * RandDen /\ r * 200000 < (distance - DoubleWallDistance) * RandDen

tooClose(s, lane) ==
  \E k \in 1 .. Len(s.obstacles) :
    LET existing == s.obstaclePool[s.obstacles[k]]
    IN existing.lane = lane /\ existing.z < -8000 /\ existing.z > -14000

spawnObstacleInFirstLane(s, draw) ==
  IF ~s.obstacleSpawningActive THEN s
  ELSE LET slot == getObstacleFromPool(s) IN
  IF slot = 0 THEN s
  ELSE LET distance == getDistance(s.hoverboard)
           obstacleType ==
             IF distance > DoubleWallDistance /\ doubleWallChosen(draw.rType, distance)
             THEN "DOUBLE_WALL" ELSE "WALL"
           lane == RandomIndex(draw.rLane, 3)
           f == speedFactor(distance)
           adjustedMinSpacing == Max(minObstacleSpacing - f \div 10, 150)
           adjustedMaxSpacing == Max(maxObstacleSpacing - (f * 2) \div 10, 300)
       IN [s EXCEPT
             !.obstaclePool[slot] = ObstacleReset(@, lane, ObstacleStartZ, obstacleType),
             !.obstacles = Append(@, slot),
             !.nextObstacleTime =
                s.gameTime + adjustedMinSpacing
                + (draw.rInt * (adjustedMaxSpacing - adjustedMinSpacing)) \div RandDen]

\* mutant: a spawn that finds no free slot is put off by the minimum spacing
spawnObstacleReschedulingWhenFull(s, draw) ==
  IF ~s.obstacleSpawningActive THEN s
  ELSE LET slot == getObstacleFromPool(s) IN
  IF slot = 0 THEN [s EXCEPT !.nextObstacleTime = s.gameTime + minObstacleSpacing]
  ELSE LET distance == getDistance(s.hoverboard)
           obstacleType ==
             IF distance > DoubleWallDistance /\ doubleWallChosen(draw.rType, distance)
             THEN "DOUBLE_WALL" ELSE "WALL"
           lane0 == RandomIndex(draw.rLane, 3)
           lane == IF tooClose(s, lane0)
                   THEN (lane0 + 1 + RandomIndex(draw.rAlt, 2)) % 3 ELSE lane0
           f == speedFactor(distance)
           adjustedMinSpacing == Max(minObstacleSpacing - f \div 10, 150)
           adjustedMaxSpacing == Max(maxObstacleSpacing - (f * 2) \div 10, 300)
       IN [s EXCEPT
             !.obstaclePool[slot] = ObstacleReset(@, lane, ObstacleStartZ, obstacleType),
             !.obstacles = Append(@, slot),
             !.nextObstacleTime =
                s.gameTime + adjustedMinSpacing
                + (draw.rInt * (adjustedMaxSpacing - adjustedMinSpacing)) \div RandDen]

\* mutant: the chance of a double wall grows from the start of the run
spawnObstacleDoubleWallsFromStart(s, draw) ==
  IF ~s.obstacleSpawningActive THEN s
  ELSE LET slot == getObstacleFromPool(s) IN
  IF slot = 0 THEN s
  ELSE LET distance == getDistance(s.hoverboard)
           obstacleType ==
             IF doubleWallChosen(draw.rType, distance + DoubleWallDistance)
             THEN "DOUBLE_WALL" ELSE "WALL"
           lane0 == RandomIndex(draw.rLane, 3)
           lane == IF tooClose(s, lane0)
                   THEN (lane0 + 1 + RandomIndex(draw.rAlt, 2)) % 3 ELSE lane0
           f == speedFactor(distance)
           adjustedMinSpacing == Max(minObstacleSpacing - f \div 10, 150)
           adjustedMaxSpacing == Max(maxObstacleSpacing - (f * 2) \div 10, 300)
       IN [s EXCEPT
             !.obstaclePool[slot] = ObstacleReset(@, lane, ObstacleStartZ, obstacleType),
             !.obstacles = Append(@, slot),
             !.nextObstacleTime =
                s.gameTime + adjustedMinSpacing
                + (draw.rInt * (adjustedMaxSpacing - adjustedMinSpacing)) \div RandDen]

\* draw: [rType, rLane, rAlt, rInt], one draw per call of Math.random()
spawnObstacle(s, draw) ==
  IF ~s.obstacleSpawningActive THEN s
  ELSE LET slot == getObstacleFromPool(s) IN
  IF slot = 0 THEN s
  ELSE LET distance == getDistance(s.hoverboard)
           obstacleType ==
             IF distance > DoubleWallDistance /\ doubleWallChosen(draw.rType, distance)
             THEN "DOUBLE_WALL" ELSE "WALL"
           lane0 == RandomIndex(draw.rLane, 3)
           lane == IF tooClose(s, lane0)
                   THEN (lane0 + 1 + RandomIndex(draw.rAlt, 2)) % 3 ELSE lane0
           f == speedFactor(distance)
           adjustedMinSpacing == Max(minObstacleSpacing - f \div 10, 150)
           adjustedMaxSpacing == Max(maxObstacleSpacing - (f * 2) \div 10, 300)
       IN [s EXCEPT
             !.obstaclePool[slot] = ObstacleReset(@, lane, ObstacleStartZ, obstacleType),
             !.obstacles = Append(@, slot),
             !.nextObstacleTime =
                s.gameTime + adjustedMinSpacing
                + (draw.rInt * (adjustedMaxSpacing - adjustedMinSpacing)) \div RandDen]

\* the draws spawnObstacle makes in state s: rType only past the double-wall
\* distance, rAlt only when the first lane is too close (else the tuple holds 0)
ObstacleDraws(s) ==
  IF ~s.obstacleSpawningActive \/ getObstacleFromPool(s) = 0
  THEN {[rType |-> 0, rLane |-> 0, rAlt |-> 0, rInt |-> 0]}
  ELSE {dr \in [rType : Rand, rLane : Rand, rAlt : Rand, rInt : Rand] :
          /\ dr.rType = 0 \/ getDistance(s.hoverboard) > DoubleWallDistance
          /\ dr.rAlt = 0 \/ tooClose(s, RandomIndex(dr.rLane, 3))}

crystalSpacing == 800

\* the three patterns of spawnCrystal: straight line, zigzag, diagonal
CrystalPatterns ==
  << << [laneOffset |-> 0, zOffset |-> 0],
        [laneOffset |-> 0, zOffset |-> crystalSpacing],
        [laneOffset |-> 0, zOffset |-> crystalSpacing * 2] >>,
     << [laneOffset |-> 0, zOffset |-> 0],
        [laneOffset |-> 1, zOffset |-> (crystalSpacing * 7) \div 10],
        [laneOffset |-> 0, zOffset |-> (crystalSpacing * 14) \div 10],
        [laneOffset |-> -1, zOffset |-> (crystalSpacing * 21) \div 10],
        [laneOffset |-> 0, zOffset |-> (crystalSpacing * 28) \div 10] >>,
     << [laneOffset |-> 0, zOffset |-> 0],
        [laneOffset |-> 1, zOffset |-> crystalSpacing],
        [laneOffset |-> 2, zOffset |-> crystalSpacing * 2] >> >>

\* the % of JavaScript: the result has the sign of the dividend
JsRem(a, n) == IF a >= 0 THEN a % n ELSE -((-a) % n)

\* mutant: the lane is the remainder as JavaScript computes it, not wrapped
RECURSIVE spawnCrystalPatternWithoutWrap(_, _, _, _, _)
spawnCrystalPatternWithoutWrap(s, baseLane, baseZ, pattern, k) ==
  IF k > Len(pattern) THEN s
  ELSE LET point == pattern[k]
           slot == getCrystalFromPool(s)
           rem == JsRem(baseLane + point.laneOffset, 3)
           lane == rem
           startZ == baseZ - point.zOffset
           placed == IF slot = 0 THEN s
                     ELSE [s EXCEPT !.crystalPool[slot] = CrystalReset(@, lane, startZ),
                                    !.crystals = Append(@, slot)]
       IN spawnCrystalPatternWithoutWrap(placed, baseLane, baseZ, pattern, k + 1)

RECURSIVE spawnCrystalPattern(_, _, _, _, _)
spawnCrystalPattern(s, baseLane, baseZ, pattern, k) ==
  IF k > Len(pattern) THEN s
  ELSE LET point == pattern[k]
           slot == getCrystalFromPool(s)
           rem == JsRem(baseLane + point.laneOffset, 3)
           lane == IF rem < 0 THEN rem + 3 ELSE rem
           startZ == baseZ - point.zOffset
           placed == IF slot = 0 THEN s
                     ELSE [s EXCEPT !.crystalPool[slot] = CrystalReset(@, lane, startZ),
                                    !.crystals = Append(@, slot)]
       IN spawnCrystalPattern(placed, baseLane, baseZ, pattern, k + 1)

\* draw: [rPattern, rLane, rInt]
spawnCrystal(s, draw) ==
  IF ~s.crystalSpawningActive THEN s
  ELSE LET patternType == RandomIndex(draw.rPattern, 3)
           startLane == RandomIndex(draw.rLane, 3)
           placed == spawnCrystalPattern(s, startLane, CrystalStartZ,
                                         CrystalPatterns[patternType + 1], 1)
           f == speedFactor(getDistance(s.hoverboard))
           adjustedMinSpacing == Max(minCrystalSpacing - f \div 10, 100)
           adjustedMaxSpacing == Max(maxCrystalSpacing - f \div 10, 200)
       IN [placed EXCEPT
             !.nextCrystalTime =
                s.gameTime
                + (adjustedMinSpacing
                   + (draw.rInt * (adjustedMaxSpacing - adjustedMinSpacing)) \div RandDen) * 2]

CrystalDraws(s) ==
  IF ~s.crystalSpawningActive
  THEN {[rPattern |-> 0, rLane |-> 0, rInt |-> 0]}
  ELSE {[rPattern |-> a, rLane |-> b, rInt |-> c] : a \in Rand, b \in Rand, c \in Rand}

-----------------------------------------------------------------------------
(* Per-tick updates *)

\* Array.prototype.sort((a, b) => b.z - a.z): stable, nearest (largest z) first
RECURSIVE InsertByZ(_, _, _)
InsertByZ(sorted, x, z) ==
  IF sorted = <<>> THEN <<x>>
  ELSE IF z[Head(sorted)] >= z[x] THEN <<Head(sorted)>> \o InsertByZ(Tail(sorted), x, z)
  ELSE <<x>> \o sorted

RECURSIVE SortByZ(_, _)
SortByZ(seq, z) ==
  IF seq = <<>> THEN <<>>
  ELSE InsertByZ(SortByZ(SubSeq(seq, 1, Len(seq) - 1), z), seq[Len(seq)], z)

maxVisibleObstacles == 6
maxVisibleCrystals == 6
AvoidanceBonus == 10

RECURSIVE UpdateObstaclesInOrder(_, _, _, _, _)
UpdateObstaclesInOrder(pool, seq, n, dt, speed) ==
  IF n = 0 THEN pool
  ELSE LET done == UpdateObstaclesInOrder(pool, seq, n - 1, dt, speed)
       IN [done EXCEPT ![seq[n]] = ObstacleUpdate(@, dt, speed)]

RECURSIVE UpdateCrystalsInOrder(_, _, _, _, _)
UpdateCrystalsInOrder(pool, seq, n, dt, speed) ==
  IF n = 0 THEN pool
  ELSE LET done == UpdateCrystalsInOrder(pool, seq, n - 1, dt, speed)
       IN [done EXCEPT ![seq[n]] = CrystalUpdate(@, dt, speed)]

\* the loop from the end of the list that retires what is past the player
RECURSIVE RetireObstacles(_, _)
RetireObstacles(s, i) ==
  IF i = 0 THEN s
  ELSE LET id == s.obstacles[i]
           next ==
             IF ObstacleIsPastPlayer(s.obstaclePool[id])
             THEN [s EXCEPT
                     !.obstacles = SubSeq(@, 1, i - 1) \o SubSeq(@, i + 1, Len(@)),
                     !.obstaclePool[id] = ObstacleSetActive(@, FALSE),
                     !.scoreAtom = @ + AvoidanceBonus,
                     !.hist.avoided = @ + 1]
             ELSE s
       IN RetireObstacles(next, i - 1)

RECURSIVE RetireCrystalsWithBonus(_, _)
RetireCrystalsWithBonus(s, i) ==
  IF i = 0 THEN s
  ELSE LET id == s.crystals[i]
           next ==
             IF CrystalIsPastPlayer(s.crystalPool[id])
             THEN [s EXCEPT
                     !.crystals = SubSeq(@, 1, i - 1) \o SubSeq(@, i + 1, Len(@)),
                     !.crystalPool[id] = CrystalSetActive(@, FALSE),
                     !.scoreAtom = @ + AvoidanceBonus]
             ELSE s
       IN RetireCrystalsWithBonus(next, i - 1)

RECURSIVE RetireCrystals(_, _)
RetireCrystals(s, i) ==
  IF i = 0 THEN s
  ELSE LET id == s.crystals[i]
           next ==
             IF CrystalIsPastPlayer(s.crystalPool[id])
             THEN [s EXCEPT
                     !.crystals = SubSeq(@, 1, i - 1) \o SubSeq(@, i + 1, Len(@)),
                     !.crystalPool[id] = CrystalSetActive(@, FALSE)]
             ELSE s
       IN RetireCrystals(next, i - 1)

updateObstaclesWithoutRetiring(s, dt, speed, draw) ==
  LET spawned == IF s.gameTime >= s.nextObstacleTime THEN spawnObstacle(s, draw) ELSE s
      sorted == SortByZ(spawned.obstacles, [i \in ObstacleIds |-> spawned.obstaclePool[i].z])
      obstaclesToUpdate == Min(Len(sorted), maxVisibleObstacles)
  IN [spawned EXCEPT
        !.obstacles = sorted,
        !.obstaclePool = UpdateObstaclesInOrder(@, sorted, obstaclesToUpdate, dt, speed)]

updateObstacles(s, dt, speed, draw) ==
  LET spawned == IF s.gameTime >= s.nextObstacleTime THEN spawnObstacle(s, draw) ELSE s
      sorted == SortByZ(spawned.obstacles, [i \in ObstacleIds |-> spawned.obstaclePool[i].z])
      obstaclesToUpdate == Min(Len(sorted), maxVisibleObstacles)
      moved == [spawned EXCEPT
                  !.obstacles = sorted,
                  !.obstaclePool =
                     UpdateObstaclesInOrder(@, sorted, obstaclesToUpdate, dt, speed)]
  IN RetireObstacles(moved, Len(moved.obstacles))

updateCrystals(s, dt, speed, draw) ==
  LET spawned == IF s.gameTime >= s.nextCrystalTime THEN spawnCrystal(s, draw) ELSE s
      sorted == SortByZ(spawned.crystals, [i \in CrystalIds |-> spawned.crystalPool[i].z])
      crystalsToUpdate == Min(Len(sorted), maxVisibleCrystals)
      moved == [spawned EXCEPT
                  !.crystals = sorted,
                  !.crystalPool =
                     UpdateCrystalsInOrder(@, sorted, crystalsToUpdate, dt, speed)]
  IN RetireCrystals(moved, Len(moved.crystals))

baseSpeed == 1600
maxAdditionalSpeed == 5000

\* distance / 100 + (distance / 1000)^1.5 * 5, capped, on top of the base speed
sceneSpeed(distance) ==
  LET linearAcceleration == distance \div 100
      exponentialFactor ==
        IF linearAcceleration >= maxAdditionalSpeed THEN 0
        ELSE (distance * Isqrt(distance)) \div 63246
  IN baseSpeed + Min(linearAcceleration + exponentialFactor, maxAdditionalSpeed)

updateSceneMovementInAnyState(s, dt, odraw, cdraw) ==
  LET speed == sceneSpeed(getDistance(s.hoverboard))
      sped == [s EXCEPT !.hoverboard = setSpeed(@, speed)]
  IN updateCrystals(updateObstacles(sped, dt, speed, odraw), dt, speed, cdraw)

updateSceneMovement(s, dt, odraw, cdraw) ==
  IF s.gameState # "playing" THEN s
  ELSE LET speed == sceneSpeed(getDistance(s.hoverboard))
           sped == [s EXCEPT !.hoverboard = setSpeed(@, speed)]
       IN updateCrystals(updateObstacles(sped, dt, speed, odraw), dt, speed, cdraw)

-----------------------------------------------------------------------------
(* Collisions *)

explosionDuration == 150

createExplosion(s) ==
  IF s.isExploding THEN s
  ELSE [s EXCEPT !.isExploding = TRUE, !.explosionStartTime = s.gameTime]

updateExplosion(s) ==
  IF ~s.isExploding THEN s
  ELSE IF s.gameTime - s.explosionStartTime >= explosionDuration
  THEN [s EXCEPT !.isExploding = FALSE]
  ELSE s

handleObstacleCollision(s) ==
  LET over == setGameStateAtom(s, "gameOver")
      halted == [over EXCEPT !.obstacleSpawningActive = FALSE,
                             !.crystalSpawningActive = FALSE,
                             !.hist.collisionCalls = @ + 1]
  IN createExplosion(halted)

\* mutant: a collected crystal is deactivated but stays in the active list
handleCrystalCollectionKeepingListed(s, id) ==
  [s EXCEPT
     !.crystalCountAtom = @ + 1,
     !.hist.collected = @ + 1,
     !.crystalPool[id] = CrystalSetActive(@, FALSE)]

handleCrystalCollection(s, id) ==
  LET index == IF \E k \in 1 .. Len(s.crystals) : s.crystals[k] = id
               THEN SetMin({k \in 1 .. Len(s.crystals) : s.crystals[k] = id}) ELSE 0
  IN [s EXCEPT
        !.crystalCountAtom = @ + 1,
        !.hist.collected = @ + 1,
        !.crystalPool[id] = CrystalSetActive(@, FALSE),
        !.crystals = IF index = 0 THEN @
                     ELSE SubSeq(@, 1, index - 1) \o SubSeq(@, index + 1, Len(@))]

InAnyRange(z) == TRUE

\* the collision window: -5 < z < 8
InCollisionRange(z) == z > -500 /\ z < 800

\* for (const obstacle of closeObstacles): the first hit ends the loop
RECURSIVE CheckCloseObstacles(_, _, _, _)
CheckCloseObstacles(s, closeObstacles, box, k) ==
  IF k > Len(closeObstacles) THEN s
  ELSE LET obstacle == s.obstaclePool[closeObstacles[k]]
       IN IF obstacle.isActive /\ intersectsBox(box, obstacle.box)
          THEN handleObstacleCollision(s)
          ELSE CheckCloseObstacles(s, closeObstacles, box, k + 1)

\* for (let i = closeCrystals.length - 1; i >= 0; i--)
RECURSIVE CheckCloseCrystals(_, _, _, _)
CheckCloseCrystals(s, closeCrystals, box, i) ==
  IF i = 0 THEN s
  ELSE LET crystal == s.crystalPool[closeCrystals[i]]
           next == IF crystal.isActive /\ intersectsBox(box, crystal.box)
                   THEN handleCrystalCollection(s, closeCrystals[i]) ELSE s
       IN CheckCloseCrystals(next, closeCrystals, box, i - 1)

\* mutant: checkCollisions without its early return outside play
checkCollisionsInAnyState(s) ==
  LET box == HoverboardBox(s.hoverboard)
      closeObstacles ==
        SelectSeq(s.obstacles, LAMBDA id : InCollisionRange(s.obstaclePool[id].z))
      afterObstacles == CheckCloseObstacles(s, closeObstacles, box, 1)
      closeCrystals ==
        SelectSeq(afterObstacles.crystals,
                  LAMBDA id : InCollisionRange(afterObstacles.crystalPool[id].z))
  IN CheckCloseCrystals(afterObstacles, closeCrystals, box, Len(closeCrystals))

checkCollisions(s) ==
  IF s.gameState # "playing" THEN s
  ELSE LET box == HoverboardBox(s.hoverboard)
           closeObstacles ==
             SelectSeq(s.obstacles, LAMBDA id : InCollisionRange(s.obstaclePool[id].z))
           afterObstacles == CheckCloseObstacles(s, closeObstacles, box, 1)
           closeCrystals ==
             SelectSeq(afterObstacles.crystals,
                       LAMBDA id : InCollisionRange(afterObstacles.crystalPool[id].z))
       IN CheckCloseCrystals(afterObstacles, closeCrystals, box, Len(closeCrystals))

-----------------------------------------------------------------------------
(* Input *)

\* key codes offered to keydown and keyup: one alias of each direction
KeyCodes == {"ArrowLeft", "KeyD"}
Sides == {"left", "right"}

handleKeyboardInputSteering(s, keys) ==
  LET left == IF "ArrowLeft" \in keys \/ "KeyA" \in keys
              THEN [s EXCEPT !.hoverboard.currentLane = Max(@ - 1, 0),
                             !.hoverboard.targetX = LaneX(Max(s.hoverboard.currentLane - 1, 0))]
              ELSE s
  IN IF "ArrowRight" \in keys \/ "KeyD" \in keys
     THEN [left EXCEPT !.hoverboard.currentLane = Min(@ + 1, 2),
                       !.hoverboard.targetX = LaneX(Min(left.hoverboard.currentLane + 1, 2))]
     ELSE left

handleKeyboardInput(s, keys) ==
  IF s.gameState # "playing" THEN s
  ELSE LET left == IF "ArrowLeft" \in keys \/ "KeyA" \in keys
                   THEN [s EXCEPT !.hoverboard = moveLeft(@)] ELSE s
       IN IF "ArrowRight" \in keys \/ "KeyD" \in keys
          THEN [left EXCEPT !.hoverboard = moveRight(@)] ELSE left

\* mutant: the tap that started the game steers like any other
handleTouchClickSteeringOnStart(s, side) ==
  IF s.gameState # "playing" THEN s
  ELSE IF side = "left" THEN [s EXCEPT !.hoverboard = moveLeft(@), !.ignoreNextTap = FALSE]
  ELSE [s EXCEPT !.hoverboard = moveRight(@), !.ignoreNextTap = FALSE]

\* side: where clientX lies with respect to the middle of the screen
handleTouchClick(s, side) ==
  IF s.gameState # "playing" THEN s
  ELSE IF s.ignoreNextTap THEN [s EXCEPT !.ignoreNextTap = FALSE]
  ELSE IF side = "left" THEN [s EXCEPT !.hoverboard = moveLeft(@)]
  ELSE [s EXCEPT !.hoverboard = moveRight(@)]

updateDistance(s) ==
  IF s.gameState = "playing"
  THEN [s EXCEPT !.distanceAtom = (getDistance(s.hoverboard) \div 100) * 100]
  ELSE s

-----------------------------------------------------------------------------
(* gameStore *)

\* mutant: a crystal is worth 10, like an avoided obstacle
finalScoreCrystalsWorthTen(distance, score, crystalCount) ==
  distance \div 100 + score + crystalCount * 10

\* finalScoreAtom: Math.floor(distance) + score + crystals * 50
finalScore(distance, score, crystalCount) ==
  distance \div 100 + score + crystalCount * 50

finalScoreAtom == finalScore(distanceAtom, scoreAtom, crystalCountAtom)

DigitChars == <<"0", "1", "2", "3", "4", "5", "6", "7", "8", "9">>

\* localStorage.getItem('vibeRidersHighScore'): null, or the text of the item
NoItem == [has |-> FALSE, text |-> <<>>]
Item(text) == [has |-> TRUE, text |-> text]

\* Number.prototype.toString() of a non-negative integer
RECURSIVE numberToString(_)
numberToString(n) ==
  IF n < 10 THEN <<DigitChars[n + 1]>>
  ELSE numberToString(n \div 10) \o <<DigitChars[(n % 10) + 1]>>

DigitValue(ch) == CHOOSE d \in 0 .. 9 : DigitChars[d + 1] = ch
IsDigit(ch) == \E d \in 0 .. 9 : DigitChars[d + 1] = ch

RECURSIVE ParseDigits(_, _, _)
ParseDigits(text, k, acc) ==
  IF k > Len(text) \/ ~IsDigit(text[k]) THEN acc
  ELSE ParseDigits(text, k + 1, acc * 10 + DigitValue(text[k]))

\* parseInt(text, 10): the value of the leading digits; NaN when there is none
parseInt(text) ==
  IF text = <<>> \/ ~IsDigit(text[1]) THEN [isNaN |-> TRUE, value |-> 0]
  ELSE [isNaN |-> FALSE, value |-> ParseDigits(text, 1, 0)]

\* the load at module initialisation: what initialStore.highScore becomes
loadHighScore(storage) ==
  IF ~storage.has \/ storage.text = <<>> THEN 0
  ELSE IF parseInt(storage.text).isNaN THEN 0 ELSE parseInt(storage.text).value

\* atom(initialStore.highScore), evaluated before the load has run
highScoreAtomInit == 0

\* mutant: the comparison is >= instead of >
updateHighScoreOrEqual(highScore, storage, newScore) ==
  IF newScore >= highScore
  THEN [highScore |-> newScore, storage |-> Item(numberToString(newScore))]
  ELSE [highScore |-> highScore, storage |-> storage]

\* updateHighScore(newScore), on the atom and the stored item
updateHighScore(highScore, storage, newScore) ==
  IF newScore > highScore
  THEN [highScore |-> newScore, storage |-> Item(numberToString(newScore))]
  ELSE [highScore |-> highScore, storage |-> storage]

\* mutant: restart goes straight to a new session
restartGameIntoPlaying(s) ==
  [setGameStateAtom(s, "playing") EXCEPT
     !.distanceAtom = 0, !.scoreAtom = 0, !.crystalCountAtom = 0]

\* restartGame(): updateGameStore({gameState: 'idle', distance: 0, score: 0, crystalCount: 0})
restartGame(s) ==
  [setGameStateAtom(s, "idle") EXCEPT
     !.distanceAtom = 0, !.scoreAtom = 0, !.crystalCountAtom = 0]

-----------------------------------------------------------------------------
(* History variables *)

\* last: the last step taken.  For a tick: whether the scene was playing when it
\* began, whether the explosion was running when collisions were due, the
\* entities that met the board then, the calls of handleObstacleCollision, the
\* crystals deactivated by the check and the crystal count before it.  For a
\* command: the final score, the high score and the stored item before it.
\* For a call on the board alone: the board before the call, the move commands
\* the call accepted, the sum of the update deltas since the last accepted move
\* command (-1: none yet; counted up to the cooldown duration) before and after
\* the call, the accepted move commands since the last update, and the same two
\* counted from the last startMoving().  For a tick also: what its spawns did, the
\* entities whose handler the collision check called (kind, z, active at the
\* check), and the active entities outside -5 < z < 8 whose box met the board's;
\* the obstacles (with their z) and crystals that were active after the tick's
\* spawn and inactive when the collision check began, the entities still active
\* and past the player when it began, the obstacles deactivated after it began,
\* and the avoidance score when it began.  For a call of spawnObstacle() alone:
\* the slot it took as it was before the call, and the distance at the call.
\* a moveLeft() call followed, after updates only, by a moveRight() call: the lane
\* before the first call, and whether no cooldown was pending at that call
NoTrip == [stage |-> "none", lane |-> 1, ready |-> FALSE]

\* what a tick's obstacle spawn did: the lane it chose, whether the first lane
\* drawn was given up, and whether another active obstacle of the chosen lane was
\* behind the spawn point, -140 < z < -80, when the new one was placed
NoObstacleSpawn == [spawned |-> FALSE, lane |-> 0, alt |-> FALSE, conflict |-> FALSE]

\* what a tick's crystal spawn did: the crystals it placed, the lane of the base
\* crystal, whether an active obstacle or crystal of that lane was in the same
\* window, and whether the pool ran out
NoCrystalSpawn ==
  [spawned |-> FALSE, placed |-> 0, lane |-> 0,
   obstacleConflict |-> FALSE, crystalConflict |-> FALSE, starved |-> FALSE]

NoLast ==
  [op |-> "init", dt |-> 0, arg |-> 0,
   playing |-> FALSE, exploding |-> FALSE,
   obstacleHits |-> {}, crystalHits |-> {}, handled |-> 0, collectedNow |-> {},
   countBefore |-> 0, finalBefore |-> 0, highBefore |-> 0, storageBefore |-> NoItem,
   before |-> HoverBoardNew, acceptedNow |-> 0,
   sinceAccept |-> -1, sinceBefore |-> -1,
   sinceAcceptRun |-> -1, sinceBeforeRun |-> -1,
   acceptedSinceUpdate |-> 0, acceptedSinceUpdateRun |-> 0,
   trip |-> NoTrip,
   obstacleSpawn |-> NoObstacleSpawn, crystalSpawn |-> NoCrystalSpawn,
   triggers |-> {}, outsideOverlap |-> {},
   retiredObstacles |-> {}, retiredCrystals |-> {},
   pastAtCheck |-> {}, retiredAfterCheck |-> {}, scoreAtCheck |-> 0,
   slotBefore |-> ObstacleSetActive(ObstacleNew(-20000), FALSE), distanceAt |-> 0]

\* windowed: the active obstacles that a collision check has found inside the
\* collision window since they were spawned
NoHist == [collisionCalls |-> 0, avoided |-> 0, collected |-> 0, windowed |-> {}]

SeqRange(seq) == {seq[k] : k \in 1 .. Len(seq)}

\* the active obstacles (crystals) of the lists that are inside the collision
\* window and whose box meets the board's, in state s
NearSpawn(z) == z > -14000 /\ z < -8000

ObstacleSpawnInfo(before, after, draw) ==
  IF Len(after.obstacles) = Len(before.obstacles) THEN NoObstacleSpawn
  ELSE LET id == after.obstacles[Len(after.obstacles)]
           lane == after.obstaclePool[id].lane
       IN [spawned |-> TRUE, lane |-> lane,
           alt |-> tooClose(before, RandomIndex(draw.rLane, 3)),
           conflict |-> \E j \in ObstacleIds \ {id} :
                          /\ before.obstaclePool[j].isActive
                          /\ before.obstaclePool[j].lane = lane
                          /\ NearSpawn(before.obstaclePool[j].z)]

CrystalSpawnInfo(before, after, draw) ==
  IF Len(after.crystals) = Len(before.crystals)
  THEN [NoCrystalSpawn EXCEPT !.starved = TRUE]
  ELSE LET id == after.crystals[Len(before.crystals) + 1]
           lane == after.crystalPool[id].lane
           patternType == RandomIndex(draw.rPattern, 3)
       IN [spawned |-> TRUE,
           placed |-> Len(after.crystals) - Len(before.crystals),
           lane |-> lane,
           obstacleConflict |-> \E j \in ObstacleIds :
                                  /\ before.obstaclePool[j].isActive
                                  /\ before.obstaclePool[j].lane = lane
                                  /\ NearSpawn(before.obstaclePool[j].z),
           crystalConflict |-> \E j \in CrystalIds :
                                 /\ before.crystalPool[j].isActive
                                 /\ before.crystalPool[j].lane = lane
                                 /\ NearSpawn(before.crystalPool[j].z),
           starved |-> Len(after.crystals) - Len(before.crystals)
                         < Len(CrystalPatterns[patternType + 1])]

\* the entities whose handler checkCollisions calls in state s
Triggers(s, after) ==
  LET box == HoverboardBox(s.hoverboard)
      closeObstacles ==
        SelectSeq(s.obstacles, LAMBDA id : InCollisionRange(s.obstaclePool[id].z))
      hit == {k \in 1 .. Len(closeObstacles) :
                /\ s.obstaclePool[closeObstacles[k]].isActive
                /\ intersectsBox(box, s.obstaclePool[closeObstacles[k]].box)}
  IN {[kind |-> "obstacle", z |-> s.obstaclePool[closeObstacles[k]].z,
       active |-> s.obstaclePool[closeObstacles[k]].isActive] :
        k \in IF s.gameState = "playing" /\ hit # {} THEN {SetMin(hit)} ELSE {}}
     \cup
     {[kind |-> "crystal", z |-> s.crystalPool[id].z,
       active |-> s.crystalPool[id].isActive] :
        id \in {c \in CrystalIds : s.crystalPool[c].isActive
                                     /\ ~after.crystalPool[c].isActive}}

\* the active entities of state s outside the band whose box meets the board's
OutsideOverlap(s) ==
  LET box == HoverboardBox(s.hoverboard)
  IN {[kind |-> "obstacle", z |-> s.obstaclePool[id].z] :
        id \in {o \in ObstacleIds :
                  /\ s.obstaclePool[o].isActive
                  /\ ~(s.obstaclePool[o].z > -500 /\ s.obstaclePool[o].z < 800)
                  /\ intersectsBox(box, s.obstaclePool[o].box)}}
     \cup
     {[kind |-> "crystal", z |-> s.crystalPool[id].z] :
        id \in {c \in CrystalIds :
                  /\ s.crystalPool[c].isActive
                  /\ ~(s.crystalPool[c].z > -500 /\ s.crystalPool[c].z < 800)
                  /\ intersectsBox(box, s.crystalPool[c].box)}}

\* const closeObstacles = this.obstacles.filter(...): the obstacles of state s
\* that checkCollisions finds inside the collision window
WindowedAtCheck(s) ==
  IF s.gameState = "playing" /\ ~s.isExploding
  THEN {o \in SeqRange(s.obstacles) : InCollisionRange(s.obstaclePool[o].z)}
  ELSE {}

\* the entities of state s that are active and past the player
PastAtCheck(s) ==
  {[kind |-> "obstacle", id |-> o] :
     o \in {i \in ObstacleIds : s.obstaclePool[i].isActive
                                  /\ ObstacleIsPastPlayer(s.obstaclePool[i])}}
  \cup
  {[kind |-> "crystal", id |-> c] :
     c \in {i \in CrystalIds : s.crystalPool[i].isActive
                                 /\ CrystalIsPastPlayer(s.crystalPool[i])}}

ObstacleHits(s) ==
  {id \in SeqRange(s.obstacles) :
     /\ s.obstaclePool[id].isActive
     /\ InCollisionRange(s.obstaclePool[id].z)
     /\ intersectsBox(HoverboardBox(s.hoverboard), s.obstaclePool[id].box)}

CrystalHits(s) ==
  {id \in SeqRange(s.crystals) :
     /\ s.crystalPool[id].isActive
     /\ InCollisionRange(s.crystalPool[id].z)
     /\ intersectsBox(HoverboardBox(s.hoverboard), s.crystalPool[id].box)}

-----------------------------------------------------------------------------
(* Initial state and actions *)

\* the state after the store module is evaluated and the scene is constructed
\* and initialised, with `storage` in localStorage
Constructed(storage) ==
  /\ gameStateAtom = "idle"
  /\ distanceAtom = 0
  /\ scoreAtom = 0
  /\ crystalCountAtom = 0
  /\ highScoreAtom = highScoreAtomInit
  /\ initialStoreHighScore = loadHighScore(storage)
  /\ localStorage = storage
  /\ gameState = "idle"
  /\ gameTime = 0
  /\ nextObstacleTime = 0
  /\ nextCrystalTime = 0
  /\ obstacleSpawningActive = FALSE
  /\ crystalSpawningActive = FALSE
  /\ isExploding = FALSE
  /\ explosionStartTime = 0
  /\ ignoreNextTap = FALSE
  /\ keyStates = {}
  /\ obstaclePool = initializeObstaclePool
  /\ obstacles = <<>>
  /\ crystalPool = initializeCrystalPool
  /\ crystals = <<>>
  /\ hoverboard = HoverBoardNew
  /\ last = NoLast
  /\ hist = NoHist
  /\ ticks = 0
  /\ session = 0

Init == Constructed(NoItem)

StoreUnchanged == UNCHANGED <<highScoreAtom, initialStoreHighScore, localStorage>>

NoObstacleDraws == {[rType |-> 0, rLane |-> 0, rAlt |-> 0, rInt |-> 0]}
NoCrystalDraws == {[rPattern |-> 0, rLane |-> 0, rInt |-> 0]}

\* CyberpunkScene.update(), with clock.getDelta() = dt
Update(dt) ==
  /\ \E keyed \in {handleKeyboardInput([Scene EXCEPT !.gameTime = @ + dt], keyStates)} :
     \E odraw \in (IF keyed.gameState = "playing" /\ keyed.gameTime >= keyed.nextObstacleTime
                   THEN ObstacleDraws(keyed) ELSE NoObstacleDraws),
        cdraw \in (IF keyed.gameState = "playing" /\ keyed.gameTime >= keyed.nextCrystalTime
                   THEN CrystalDraws(keyed) ELSE NoCrystalDraws) :
     \E moved \in {updateSceneMovement(keyed, dt, odraw, cdraw)} :
     \E collided \in {IF ~moved.isExploding THEN checkCollisions(moved) ELSE moved} :
     \E measured \in {updateDistance(IF collided.isExploding THEN updateExplosion(collided)
                                     ELSE collided)} :
       /\ Becomes([measured EXCEPT
                     !.hoverboard = hoverboardUpdate(@, dt),
                     !.hist.windowed =
                        IF keyed.gameState = "playing"
                        THEN {o \in @ : obstaclePool[o].isActive}
                               \cup WindowedAtCheck(moved)
                        ELSE @])
       /\ last' = [NoLast EXCEPT
                     !.op = "tick", !.dt = dt,
                     !.playing = keyed.gameState = "playing",
                     !.exploding = moved.isExploding,
                     !.countBefore = moved.crystalCountAtom,
                     !.obstacleHits = ObstacleHits(moved),
                     !.crystalHits = CrystalHits(moved),
                     !.handled = collided.hist.collisionCalls - moved.hist.collisionCalls,
                     !.collectedNow =
                        {id \in CrystalIds : /\ moved.crystalPool[id].isActive
                                             /\ ~collided.crystalPool[id].isActive},
                     !.obstacleSpawn =
                        IF keyed.gameState = "playing"
                           /\ keyed.gameTime >= keyed.nextObstacleTime
                        THEN ObstacleSpawnInfo(keyed, spawnObstacle(keyed, odraw), odraw)
                        ELSE NoObstacleSpawn,
                     !.crystalSpawn =
                        IF keyed.gameState = "playing"
                           /\ keyed.gameTime >= keyed.nextCrystalTime
                        THEN LET speed == sceneSpeed(getDistance(keyed.hoverboard))
                                 before == updateObstacles(keyed, dt, speed, odraw)
                             IN CrystalSpawnInfo(before, spawnCrystal(before, cdraw), cdraw)
                        ELSE NoCrystalSpawn,
                     !.triggers =
                        IF moved.isExploding THEN {} ELSE Triggers(moved, collided),
                     !.outsideOverlap =
                        IF moved.gameState = "playing" /\ ~moved.isExploding
                        THEN OutsideOverlap(moved) ELSE {},
                     !.retiredObstacles =
                        LET spawned == IF keyed.gameState = "playing"
                                          /\ keyed.gameTime >= keyed.nextObstacleTime
                                       THEN spawnObstacle(keyed, odraw) ELSE keyed
                        IN {[id |-> i, z |-> moved.obstaclePool[i].z] :
                              i \in {o \in ObstacleIds :
                                       /\ spawned.obstaclePool[o].isActive
                                       /\ ~moved.obstaclePool[o].isActive}},
                     !.retiredCrystals =
                        LET spawned == IF keyed.gameState = "playing"
                                          /\ keyed.gameTime >= keyed.nextCrystalTime
                                       THEN spawnCrystal(keyed, cdraw) ELSE keyed
                        IN {c \in CrystalIds :
                              /\ spawned.crystalPool[c].isActive
                              /\ ~moved.crystalPool[c].isActive},
                     !.pastAtCheck = PastAtCheck(moved),
                     !.retiredAfterCheck =
                        {o \in ObstacleIds : /\ moved.obstaclePool[o].isActive
                                              /\ ~measured.obstaclePool[o].isActive},
                     !.scoreAtCheck = moved.scoreAtom]
  /\ ticks' = ticks + 1
  /\ UNCHANGED <<keyStates, session>>
  /\ StoreUnchanged

\* the scene CyberpunkScene.update() leaves behind in the current state for the
\* delta dt and the values odraw, cdraw of Math.random()
TickOutcome(dt, odraw, cdraw) ==
  LET keyed == handleKeyboardInput([Scene EXCEPT !.gameTime = @ + dt], keyStates)
      moved == updateSceneMovement(keyed, dt, odraw, cdraw)
      collided == IF ~moved.isExploding THEN checkCollisions(moved) ELSE moved
      measured == updateDistance(IF collided.isExploding THEN updateExplosion(collided)
                                 ELSE collided)
  IN [measured EXCEPT !.hoverboard = hoverboardUpdate(@, dt)]

\* every scene update() can leave behind in the current state for the delta dt
TickOutcomes(dt) ==
  LET keyed == handleKeyboardInput([Scene EXCEPT !.gameTime = @ + dt], keyStates)
  IN {TickOutcome(dt, odraw, cdraw) :
        odraw \in (IF keyed.gameState = "playing" /\ keyed.gameTime >= keyed.nextObstacleTime
                   THEN ObstacleDraws(keyed) ELSE NoObstacleDraws),
        cdraw \in (IF keyed.gameState = "playing" /\ keyed.gameTime >= keyed.nextCrystalTime
                   THEN CrystalDraws(keyed) ELSE NoCrystalDraws)}

Tick(dt) ==
  /\ ticks < MaxTicks
  /\ gameState = "playing" => gameTime + dt <= MaxGameTime
  /\ Update(dt)

\* the click on START GAME (rendered while idle): handleStartGame, the store
\* subscription, then the same click at the document listener
StartGame ==
  /\ gameStateAtom = "idle"
  /\ session < MaxSessions
  /\ LET started == setGameStateAtom(Scene, "playing")
         clicked == handleTouchClick(started, "left")
     IN Becomes([clicked EXCEPT !.hist = NoHist])
  /\ last' = [NoLast EXCEPT !.op = "start"]
  /\ session' = session + 1
  /\ UNCHANGED <<keyStates, ticks>>
  /\ StoreUnchanged

\* the click on the restart button (rendered while gameOver): handleRestartGame,
\* then the same click at the document listener
RestartGame ==
  /\ gameStateAtom = "gameOver"
  /\ LET restarted == restartGame(Scene)
         clicked == handleTouchClick(restarted, "left")
     IN Becomes([clicked EXCEPT !.hist = NoHist])
  /\ last' = [NoLast EXCEPT !.op = "restart",
                            !.finalBefore = finalScoreAtom,
                            !.highBefore = highScoreAtom]
  /\ UNCHANGED <<keyStates, ticks, session>>
  /\ StoreUnchanged

\* a click or touchstart elsewhere on the page, in any state of the game
Tap(side) ==
  /\ Becomes(handleTouchClick(Scene, side))
  /\ last' = [NoLast EXCEPT !.op = "input"]
  /\ UNCHANGED <<keyStates, ticks, session>>
  /\ StoreUnchanged

KeyDown(code) ==
  /\ code \notin keyStates
  /\ keyStates' = keyStates \cup {code}
  /\ last' = [NoLast EXCEPT !.op = "input"]
  /\ Becomes(Scene)
  /\ UNCHANGED <<ticks, session>>
  /\ StoreUnchanged

KeyUp(code) ==
  /\ code \in keyStates
  /\ keyStates' = keyStates \ {code}
  /\ last' = [NoLast EXCEPT !.op = "input"]
  /\ Becomes(Scene)
  /\ UNCHANGED <<ticks, session>>
  /\ StoreUnchanged

Next ==
  \/ \E dt \in Dts : Tick(dt)
  \/ StartGame
  \/ RestartGame
  \/ \E side \in Sides : Tap(side)
  \/ \E code \in KeyCodes : KeyDown(code)
  \/ \E code \in KeyCodes : KeyUp(code)

Spec == Init /\ [][Next]_vars

-----------------------------------------------------------------------------
(* The store on its own: updateHighScore and a reload of the page *)

SceneUnchanged ==
  UNCHANGED <<gameStateAtom, distanceAtom, scoreAtom, crystalCountAtom,
              gameState, gameTime, nextObstacleTime, nextCrystalTime,
              obstacleSpawningActive, crystalSpawningActive,
              isExploding, explosionStartTime, ignoreNextTap, keyStates,
              obstaclePool, obstacles, crystalPool, crystals,
              hoverboard, hist, ticks, session>>

UpdateHighScore(newScore) ==
  /\ LET r == updateHighScore(highScoreAtom, localStorage, newScore)
     IN /\ highScoreAtom' = r.highScore
        /\ localStorage' = r.storage
  /\ last' = [NoLast EXCEPT !.op = "updateHighScore", !.arg = newScore,
                            !.highBefore = highScoreAtom,
                            !.storageBefore = localStorage]
  /\ UNCHANGED initialStoreHighScore
  /\ SceneUnchanged

\* the page is loaded again: every module is evaluated anew, localStorage stays
ReloadPage ==
  /\ last.op # "reload"
  /\ highScoreAtom' = highScoreAtomInit
  /\ initialStoreHighScore' = loadHighScore(localStorage)
  /\ last' = [NoLast EXCEPT !.op = "reload", !.highBefore = highScoreAtom,
                            !.storageBefore = localStorage]
  /\ UNCHANGED localStorage
  /\ SceneUnchanged

NextStore ==
  \/ \E newScore \in 0 .. MaxScore : UpdateHighScore(newScore)
  \/ ReloadPage

SpecStore == Init /\ [][NextStore]_vars

-----------------------------------------------------------------------------
(* The spawners: a session left to run at a steady frame rate *)

MaxSpawnTicks == 12

SpawnDts == {100}

SpawnTick(dt) ==
  /\ ticks < MaxSpawnTicks
  /\ Update(dt)

NextSpawn ==
  \/ \E dt \in SpawnDts : SpawnTick(dt)
  \/ StartGame

SpecSpawn == Init /\ [][NextSpawn]_vars

-----------------------------------------------------------------------------
(* A session whose frames arrive late: clock.getDelta() returns the whole time
   since the previous frame, whatever it is *)

MaxStrideTicks == 3

\* 2 s and 4 s between two frames
StrideDts == {200, 400}

StrideTick(dt) ==
  /\ ticks < MaxStrideTicks
  /\ Update(dt)

NextStride ==
  \/ \E dt \in StrideDts : StrideTick(dt)
  \/ StartGame

SpecStride == Init /\ [][NextStride]_vars

-----------------------------------------------------------------------------
(* The obstacle spawner on its own: spawnObstacle() called whenever a spawn is
   due, while no obstacle on the track reaches the player *)

MaxPoolSteps == 18

\* the values of Math.random() tried: one value per call of spawnObstacle
PoolDraws == {[rType |-> r, rLane |-> r, rAlt |-> r, rInt |-> r] : r \in Rand}

\* the scene at the frame in which the next obstacle falls due
ObstacleDue == [Scene EXCEPT !.gameTime = Max(@, nextObstacleTime)]

\* the guard of updateObstacles has let the call through: spawnObstacle()
PoolSpawnObstacle(draw) ==
  /\ gameState = "playing"
  /\ ticks < MaxPoolSteps
  /\ \E after \in {spawnObstacle(ObstacleDue, draw)} :
       /\ Becomes(after)
       /\ last' = [NoLast EXCEPT !.op = "spawnObstacle",
                                 !.obstacleSpawn =
                                    ObstacleSpawnInfo(ObstacleDue, after, draw)]
  /\ ticks' = ticks + 1
  /\ UNCHANGED <<keyStates, session>>
  /\ StoreUnchanged

NextObstaclePool ==
  \/ \E draw \in PoolDraws : PoolSpawnObstacle(draw)
  \/ StartGame

SpecObstaclePool == Init /\ [][NextObstaclePool]_vars

-----------------------------------------------------------------------------
(* The crystal patterns on their own: spawnCrystalPattern() called with each
   pattern and base lane spawnCrystal() can pass, between crystals passing the
   player *)

MaxPatternSteps == 5

PatternTypes == 0 .. 2

\* spawnCrystalPattern(startLane, startZ, pattern) as spawnCrystal() calls it
PatternSpawn(patternType, startLane) ==
  /\ gameState = "playing"
  /\ crystalSpawningActive
  /\ ticks < MaxPatternSteps
  /\ \E after \in {spawnCrystalPattern(Scene, startLane, CrystalStartZ,
                                       CrystalPatterns[patternType + 1], 1)} :
       /\ Becomes(after)
       /\ last' = [NoLast EXCEPT
                     !.op = "spawnCrystalPattern",
                     !.arg = patternType,
                     !.crystalSpawn =
                        [NoCrystalSpawn EXCEPT
                           !.spawned = Len(after.crystals) > Len(crystals),
                           !.placed = Len(after.crystals) - Len(crystals),
                           !.lane = startLane,
                           !.starved = Len(after.crystals) - Len(crystals)
                                         < Len(CrystalPatterns[patternType + 1])]]
  /\ ticks' = ticks + 1
  /\ UNCHANGED <<keyStates, session>>
  /\ StoreUnchanged

\* the first crystal of the list passes the player: the retirement loop of
\* updateCrystals
PatternRetire ==
  /\ gameState = "playing"
  /\ ticks < MaxPatternSteps
  /\ crystals # <<>>
  /\ \E passed \in {[Scene EXCEPT !.crystalPool[crystals[1]].z = 1001]} :
       Becomes(RetireCrystals(passed, Len(passed.crystals)))
  /\ last' = [NoLast EXCEPT !.op = "retireCrystal"]
  /\ ticks' = ticks + 1
  /\ UNCHANGED <<keyStates, session>>
  /\ StoreUnchanged

NextCrystalPattern ==
  \/ \E patternType \in PatternTypes, startLane \in LaneIds :
       PatternSpawn(patternType, startLane)
  \/ PatternRetire
  \/ StartGame

SpecCrystalPattern == Init /\ [][NextCrystalPattern]_vars

-----------------------------------------------------------------------------
(* The obstacle slots along a run: spawnObstacle() called when due at the
   distances the board passes, obstacles passing the player or stopping the
   board, and the next session on the same pool *)

MaxSlotSteps == 5

\* at most this many obstacles on the track at a time
MaxSlotActive == 2

\* distances short of, at and past the point where double walls begin, and past
\* the point where the speed factor stops growing
SlotDistances == {25000, 50000, 50100, 100000, 250000}

\* frames pass and the board reaches distance d
SlotTravel(d) ==
  /\ gameState = "playing"
  /\ d > getDistance(hoverboard)
  /\ Becomes([Scene EXCEPT !.hoverboard.posZ = HoverZ - d])
  /\ last' = [NoLast EXCEPT !.op = "travel"]
  /\ UNCHANGED <<keyStates, ticks, session>>
  /\ StoreUnchanged

\* the guard of updateObstacles has let the call through: spawnObstacle()
SlotSpawn(draw) ==
  /\ gameState = "playing"
  /\ ticks < MaxSlotSteps
  /\ Len(obstacles) < MaxSlotActive
  /\ draw \in ObstacleDraws(ObstacleDue)
  /\ \E after \in {spawnObstacle(ObstacleDue, draw)} :
       /\ Becomes(after)
       /\ last' = [NoLast EXCEPT
                     !.op = "spawnObstacle",
                     !.obstacleSpawn = ObstacleSpawnInfo(ObstacleDue, after, draw),
                     !.slotBefore =
                        IF getObstacleFromPool(ObstacleDue) = 0 THEN @
                        ELSE obstaclePool[getObstacleFromPool(ObstacleDue)],
                     !.distanceAt = getDistance(hoverboard)]
  /\ ticks' = ticks + 1
  /\ UNCHANGED <<keyStates, session>>
  /\ StoreUnchanged

\* the first obstacle of the list passes the player: the retirement loop of
\* updateObstacles
SlotRetire ==
  /\ gameState = "playing"
  /\ ticks < MaxSlotSteps
  /\ obstacles # <<>>
  /\ \E passed \in {[Scene EXCEPT !.obstaclePool[obstacles[1]].z = 1001]} :
       Becomes(RetireObstacles(passed, Len(passed.obstacles)))
  /\ last' = [NoLast EXCEPT !.op = "retireObstacle"]
  /\ ticks' = ticks + 1
  /\ UNCHANGED <<keyStates, session>>
  /\ StoreUnchanged

\* the board runs into an obstacle: handleObstacleCollision()
SlotCrash ==
  /\ gameState = "playing"
  /\ ticks < MaxSlotSteps
  /\ obstacles # <<>>
  /\ Becomes(handleObstacleCollision(Scene))
  /\ last' = [NoLast EXCEPT !.op = "crash"]
  /\ ticks' = ticks + 1
  /\ UNCHANGED <<keyStates, session>>
  /\ StoreUnchanged

NextSlot ==
  \/ \E d \in SlotDistances : SlotTravel(d)
  \/ \E draw \in [rType : Rand, rLane : Rand, rAlt : Rand, rInt : Rand] : SlotSpawn(draw)
  \/ SlotRetire
  \/ SlotCrash
  \/ StartGame
  \/ RestartGame

SpecSlot == Init /\ [][NextSlot]_vars

-----------------------------------------------------------------------------
(* The player on its own: any sequence of calls on the HoverBoard *)

MaxBoardUpdates == 4

\* frame deltas below and at the cooldown duration
BoardDts == {8, 20}

MoveOps == {"moveLeft", "moveRight", "pollKeys"}

BoardRest ==
  UNCHANGED <<gameStateAtom, distanceAtom, scoreAtom, crystalCountAtom,
              highScoreAtom, initialStoreHighScore, localStorage,
              gameState, gameTime, nextObstacleTime, nextCrystalTime,
              obstacleSpawningActive, crystalSpawningActive,
              isExploding, explosionStartTime, ignoreNextTap, keyStates,
              obstaclePool, obstacles, crystalPool, crystals, hist, session>>

Accepted(h, after) == IF after # h THEN 1 ELSE 0

\* the call op with delta dt took the board to `after` and accepted
\* acceptedNow move commands
BoardCall(op, after, acceptedNow, trip, dt) ==
  /\ hoverboard' = after
  /\ last' = [NoLast EXCEPT
       !.op = op, !.dt = dt, !.before = hoverboard, !.acceptedNow = acceptedNow,
       !.sinceBefore = last.sinceAccept,
       !.sinceBeforeRun = last.sinceAcceptRun,
       !.sinceAccept =
          IF acceptedNow > 0 THEN 0
          ELSE IF op = "update" /\ last.sinceAccept >= 0
               THEN Min(last.sinceAccept + dt, moveCooldownDuration)
          ELSE last.sinceAccept,
       !.sinceAcceptRun =
          IF acceptedNow > 0 THEN 0
          ELSE IF op = "startMoving" THEN -1
          ELSE IF op = "update" /\ last.sinceAcceptRun >= 0
               THEN Min(last.sinceAcceptRun + dt, moveCooldownDuration)
          ELSE last.sinceAcceptRun,
       !.acceptedSinceUpdate =
          IF op = "update" THEN 0
          ELSE Min(last.acceptedSinceUpdate + acceptedNow, 2),
       !.acceptedSinceUpdateRun =
          IF op \in {"update", "startMoving"} THEN 0
          ELSE Min(last.acceptedSinceUpdateRun + acceptedNow, 2),
       !.trip = trip]
  /\ BoardRest

BoardStartMoving ==
  /\ BoardCall("startMoving", startMoving(hoverboard), 0, NoTrip, 0)
  /\ UNCHANGED ticks

BoardStopMoving ==
  /\ BoardCall("stopMoving", stopMoving(hoverboard), 0, NoTrip, 0)
  /\ UNCHANGED ticks

BoardReset ==
  /\ BoardCall("reset", hoverboardReset(hoverboard), 0, NoTrip, 0)
  /\ UNCHANGED ticks

BoardMoveLeft ==
  /\ BoardCall("moveLeft", moveLeft(hoverboard),
               Accepted(hoverboard, moveLeft(hoverboard)),
               IF hoverboard.isMoving
               THEN [stage |-> "left", lane |-> hoverboard.currentLane,
                     ready |-> hoverboard.moveCooldown <= 0]
               ELSE NoTrip, 0)
  /\ UNCHANGED ticks

BoardMoveRight ==
  /\ BoardCall("moveRight", moveRight(hoverboard),
               Accepted(hoverboard, moveRight(hoverboard)),
               IF last.trip.stage = "left" /\ hoverboard.moveCooldown <= 0
               THEN [last.trip EXCEPT !.stage = "closed"] ELSE NoTrip, 0)
  /\ UNCHANGED ticks

\* handleKeyboardInput with a left and a right key held: moveLeft(), then moveRight()
BoardPollKeys ==
  /\ BoardCall("pollKeys", moveRight(moveLeft(hoverboard)),
               Accepted(hoverboard, moveLeft(hoverboard))
                 + Accepted(moveLeft(hoverboard), moveRight(moveLeft(hoverboard))),
               NoTrip, 0)
  /\ UNCHANGED ticks

BoardUpdate(dt) ==
  /\ ticks < MaxBoardUpdates
  /\ BoardCall("update", hoverboardUpdate(hoverboard, dt), 0, last.trip, dt)
  /\ ticks' = ticks + 1

NextBoard ==
  \/ BoardStartMoving
  \/ BoardStopMoving
  \/ BoardReset
  \/ BoardMoveLeft
  \/ BoardMoveRight
  \/ BoardPollKeys
  \/ \E dt \in BoardDts : BoardUpdate(dt)

SpecBoard == Init /\ [][NextBoard]_vars

-----------------------------------------------------------------------------
(* Properties *)

AllInactive ==
  /\ \A i \in ObstacleIds : ~obstaclePool[i].isActive
  /\ \A i \in CrystalIds : ~crystalPool[i].isActive
  /\ obstacles = <<>>
  /\ crystals = <<>>

\* C1: in every tick that begins in play and in which an active obstacle inside
\* the collision window meets the board, handleObstacleCollision runs and the
\* tick ends in gameOver.
C1_CollisionEndsSession ==
  (last.op = "tick" /\ last.playing /\ last.obstacleHits # {})
    => (last.handled >= 1 /\ gameState = "gameOver" /\ gameStateAtom = "gameOver")

C3_LegalTransitions ==
  [][/\ gameState' = gameStateAtom'
     /\ gameStateAtom' # gameStateAtom =>
          \/ /\ gameStateAtom = "idle" /\ gameStateAtom' = "playing"
             /\ last'.op = "start"
          \/ /\ gameStateAtom = "playing" /\ gameStateAtom' = "gameOver"
             /\ last'.op = "tick" /\ last'.handled = 1
          \/ /\ gameStateAtom = "gameOver" /\ gameStateAtom' = "idle"
             /\ last'.op = "restart"]_vars

\* the whole cycle was walked: start, crash, restart, and a tick of the session
\* started after it
C3_Witness ==
  /\ session = 2
  /\ gameStateAtom = "playing"
  /\ gameState = "playing"
  /\ last.op = "tick"
  /\ hist.collisionCalls = 0

\* C4: right after a start command the counters are 0, the board is in lane 1,
\* moving, with forward distance 0, every pool slot is inactive and both lists
\* are empty, game time is 0 and the next spawn times are 4.0 and 2.0.
C4_FreshSession ==
  last.op = "start" =>
    /\ gameState = "playing" /\ gameStateAtom = "playing"
    /\ distanceAtom = 0 /\ scoreAtom = 0 /\ crystalCountAtom = 0
    /\ hoverboard.currentLane = 1 /\ hoverboard.posX = LaneX(1)
    /\ hoverboard.targetX = LaneX(1)
    /\ getDistance(hoverboard) = 0
    /\ hoverboard.isMoving
    /\ AllInactive
    /\ gameTime = 0
    /\ nextObstacleTime = 400
    /\ nextCrystalTime = 200

\* a start that follows a restart, the board having left lane 1 and an obstacle
\* and a crystal having been on the track in the session before
C4_Witness ==
  /\ last.op = "start"
  /\ session = 2
  /\ hoverboard.meshX # LaneX(1)
  /\ \E i \in ObstacleIds : obstaclePool[i].z # -20000
  /\ \E i \in CrystalIds : crystalPool[i].z # -20000

\* C5: right after a restart command the counters are 0 and no obstacle or
\* crystal is active or in an active list.
C5_RestartClearsEntities ==
  last.op = "restart" =>
    /\ distanceAtom = 0 /\ scoreAtom = 0 /\ crystalCountAtom = 0
    /\ AllInactive

\* C6: right after a restart command the high score is the larger of the high
\* score before it and the final score of the session it ended.
C6_RestartRecordsHighScore ==
  last.op = "restart" => highScoreAtom = Max(last.highBefore, last.finalBefore)

C8_HighScoreSurvivesReload ==
  (/\ last.op = "reload"
   /\ localStorage.has
   /\ ~parseInt(localStorage.text).isNaN)
    => highScoreAtom = parseInt(localStorage.text).value

\* C9: the final score is floor(distance) + 10 for every obstacle retired in
\* the session + 50 for every crystal collected in it; for distance 123.7, two
\* obstacles and three crystals it is 293.
C9_FinalScoreFormula ==
  /\ finalScoreAtom = distanceAtom \div 100 + 10 * hist.avoided + 50 * hist.collected
  /\ finalScore(12370, 2 * AvoidanceBonus, 3) = 293

\* a session with distance covered, an obstacle retired and a crystal collected
C9_Witness ==
  /\ distanceAtom > 0
  /\ hist.avoided >= 1
  /\ hist.collected >= 1

\* C10: in a tick, the crystal count grows by one for every crystal the check
\* deactivates, each of them is inactive and off the list afterwards, every
\* crystal that meets the board in play is among them, and a tick that handled
\* no obstacle collision does not end the session.
C10_CrystalCollection ==
  last.op = "tick" =>
    /\ crystalCountAtom = last.countBefore + Cardinality(last.collectedNow)
    /\ \A id \in last.collectedNow :
         ~crystalPool[id].isActive /\ id \notin SeqRange(crystals)
    /\ last.playing => last.crystalHits \subseteq last.collectedNow
    /\ (last.playing /\ last.handled = 0) => gameState = "playing"

C12_RoundTripEveryLane ==
  last.trip.stage = "closed" => hoverboard.currentLane = last.trip.lane

\* C12 (amended): for every lane L in {1, 2}, on a moving board in lane L with
\* no cooldown pending, moveLeft() followed by moveRight(), with the cooldown
\* elapsed between the two calls, leaves the lane equal to L.
C12_RoundTripFromInnerLanes ==
  (last.trip.stage = "closed" /\ last.trip.ready /\ last.trip.lane \in {1, 2})
    => hoverboard.currentLane = last.trip.lane

\* the round trip from lane 2 has just been closed, after updates in between
C12_Witness ==
  /\ last.op = "moveRight"
  /\ last.trip.stage = "closed"
  /\ last.trip.ready
  /\ last.trip.lane = 2
  /\ last.acceptedNow = 1
  /\ last.sinceBefore >= moveCooldownDuration

\* C13: after any sequence of startMoving, stopMoving, reset, moveLeft, moveRight
\* and update calls the lane index is 0, 1 or 2; moveLeft() in lane 0 and
\* moveRight() in lane 2 change neither the lane, the target lateral position
\* nor the cooldown.
C13_LaneInRange ==
  /\ hoverboard.currentLane \in LaneIds
  /\ ((last.op = "moveLeft" /\ last.before.currentLane = 0)
       \/ (last.op = "moveRight" /\ last.before.currentLane = 2))
     => /\ hoverboard.currentLane = last.before.currentLane
        /\ hoverboard.targetX = last.before.targetX
        /\ hoverboard.moveCooldown = last.before.moveCooldown

\* moveLeft() was called on a moving board in lane 0 with no cooldown pending
C13_Witness ==
  /\ last.op = "moveLeft"
  /\ last.before.currentLane = 0
  /\ last.before.isMoving
  /\ last.before.moveCooldown <= 0
  /\ last.before.posX = LaneX(0)

\* C14 (as stated): a move command issued before the update deltas since the
\* last accepted move command sum to the cooldown duration is rejected and
\* leaves the lane unchanged, and at most one move command is accepted between
\* two consecutive updates.
C14_CooldownBetweenMoves ==
  /\ last.acceptedSinceUpdate <= 1
  /\ last.op \in MoveOps =>
       /\ last.acceptedNow <= 1
       /\ (last.sinceBefore >= 0 /\ last.sinceBefore < moveCooldownDuration)
            => /\ last.acceptedNow = 0
               /\ hoverboard.currentLane = last.before.currentLane

\* C14 (amended): the same, with the deltas and the accepted commands counted
\* within one run, that is since the last startMoving().
C14_CooldownBetweenMovesOfARun ==
  /\ last.acceptedSinceUpdateRun <= 1
  /\ last.op \in MoveOps =>
       /\ last.acceptedNow <= 1
       /\ (last.sinceBeforeRun >= 0 /\ last.sinceBeforeRun < moveCooldownDuration)
            => /\ last.acceptedNow = 0
               /\ hoverboard.currentLane = last.before.currentLane

\* a move command that would be in range is rejected 0.16 s after the accepted one
C14_Witness ==
  /\ last.op = "moveRight"
  /\ last.before.isMoving
  /\ last.before.currentLane = 0
  /\ last.sinceBeforeRun = 16
  /\ last.acceptedNow = 0

\* C15: whatever the board's state before, immediately after startMoving() the
\* distance is 0, the lane is 1, the lateral position and its target are the
\* centre lane's offset, the cooldown is cleared and the board is moving.
C15_StartMovingResets ==
  last.op = "startMoving" =>
    /\ getDistance(hoverboard) = 0
    /\ hoverboard.posZ = HoverZ
    /\ hoverboard.currentLane = 1
    /\ hoverboard.posX = LaneX(1)
    /\ hoverboard.targetX = LaneX(1)
    /\ hoverboard.moveCooldown = 0
    /\ hoverboard.isMoving

\* startMoving() on a board that was under way to another lane, cooling down
C15_Witness ==
  /\ last.op = "startMoving"
  /\ last.before.isMoving
  /\ last.before.currentLane = 2
  /\ last.before.posX \notin {LaneX(l) : l \in LaneIds}
  /\ last.before.posZ < HoverZ
  /\ last.before.moveCooldown > 0

\* C16: at every tick at most 15 obstacles and at most 8 crystals are active,
\* the lists of active entities are no longer than the pools, and the pools keep
\* the slots they were initialised with.
C16_PoolsBounded ==
  /\ DOMAIN obstaclePool = 1 .. ObstaclePoolSize
  /\ DOMAIN crystalPool = 1 .. CrystalPoolSize
  /\ Cardinality({i \in DOMAIN obstaclePool : obstaclePool[i].isActive}) <= ObstaclePoolSize
  /\ Cardinality({i \in DOMAIN crystalPool : crystalPool[i].isActive}) <= CrystalPoolSize
  /\ Len(obstacles) <= ObstaclePoolSize
  /\ Len(crystals) <= CrystalPoolSize
  /\ SeqRange(obstacles) = {i \in DOMAIN obstaclePool : obstaclePool[i].isActive}
  /\ SeqRange(crystals) = {i \in DOMAIN crystalPool : crystalPool[i].isActive}

\* a crystal pattern found the pool empty before it was complete: all 8 are active
C16_Witness ==
  /\ last.op = "tick"
  /\ last.crystalSpawn.starved
  /\ \A i \in CrystalIds : crystalPool[i].isActive
  /\ Len(crystals) = CrystalPoolSize

C18_CrystalSpawnSpacing ==
  (last.op = "tick" /\ last.crystalSpawn.spawned)
    => ~last.crystalSpawn.obstacleConflict /\ ~last.crystalSpawn.crystalConflict

C20_MovesIgnoredOutsidePlay ==
  [][(gameState \in {"idle", "gameOver"} /\ last'.op \in {"input", "tick"})
       => /\ hoverboard'.currentLane = hoverboard.currentLane
          /\ hoverboard'.targetX = hoverboard.targetX
          /\ hoverboard'.moveCooldown =
               IF last'.op = "tick"
               THEN hoverboardUpdate(hoverboard, last'.dt).moveCooldown
               ELSE hoverboard.moveCooldown]_vars

\* a tick polled a held direction key while the session was over, with the
\* board off the edge lanes and no cooldown pending
C20_Witness ==
  /\ last.op = "tick"
  /\ ~last.playing
  /\ gameState = "gameOver"
  /\ keyStates # {}
  /\ hoverboard.currentLane = 1
  /\ hoverboard.moveCooldown <= 0

\* C21: a tick that begins outside play moves and retires no obstacle or crystal,
\* attempts no spawn, leaves the spawn timers, the distance, the avoidance score
\* and the crystal count as they were; with an obstacle still meeting the board
\* it calls no collision handler and starts no new explosion.
C21_NothingAdvancesOutsidePlay ==
  [][(gameState # "playing" /\ last'.op = "tick")
       => /\ obstaclePool' = obstaclePool /\ obstacles' = obstacles
          /\ crystalPool' = crystalPool /\ crystals' = crystals
          /\ ~last'.obstacleSpawn.spawned /\ ~last'.crystalSpawn.spawned
          /\ nextObstacleTime' = nextObstacleTime
          /\ nextCrystalTime' = nextCrystalTime
          /\ obstacleSpawningActive' = obstacleSpawningActive
          /\ crystalSpawningActive' = crystalSpawningActive
          /\ distanceAtom' = distanceAtom /\ scoreAtom' = scoreAtom
          /\ crystalCountAtom' = crystalCountAtom
          /\ gameState' = gameState /\ gameStateAtom' = gameStateAtom
          /\ hist' = hist /\ last'.handled = 0 /\ last'.triggers = {}
          /\ isExploding' => isExploding
          /\ explosionStartTime' = explosionStartTime]_vars

\* a tick in gameOver, the explosion over, with the obstacle that ended the
\* session still meeting the board
C21_Witness ==
  /\ last.op = "tick"
  /\ ~last.playing
  /\ gameState = "gameOver"
  /\ ~last.exploding
  /\ last.obstacleHits # {}
  /\ hist.collisionCalls = 1

\* C22: from every state the game reaches, a tick with a given delta has one
\* outcome only: two runs that agree so far and are given the same delta agree
\* on the session state, the counters, the board and every entity afterwards.
C22_SameDeltasSameState ==
  \A dt \in Dts : Cardinality(TickOutcomes(dt)) <= 1

C25_FullPoolAbortsSpawn ==
  [][(/\ last'.op = "spawnObstacle"
      /\ \A i \in ObstacleIds : obstaclePool[i].isActive)
     => /\ gameTime' >= nextObstacleTime
        /\ obstacleSpawningActive
        /\ obstaclePool' = obstaclePool
        /\ DOMAIN obstaclePool' = ObstacleIds
        /\ obstacles' = obstacles
        /\ ~last'.obstacleSpawn.spawned
        /\ nextObstacleTime' = nextObstacleTime]_vars

\* a due spawn has just been given up with all fifteen slots in use
C25_Witness ==
  /\ last.op = "spawnObstacle"
  /\ ~last.obstacleSpawn.spawned
  /\ gameTime >= nextObstacleTime
  /\ Len(obstacles) = ObstaclePoolSize
  /\ \A i \in ObstacleIds : obstaclePool[i].isActive

\* C26: a call of spawnCrystalPattern() with base lane b and a pattern of n
\* points (n is 3 or 5) activates exactly min(n, inactive slots) crystals, which
\* are the first points of the pattern in order; the k-th of them was inactive,
\* has lane (b + laneOffset) mod 3, a lane of the track, and z = -130 minus its
\* zOffset; the points left over are skipped and nothing else changes.
C26_PatternFillsFreeSlots ==
  [][last'.op = "spawnCrystalPattern"
     => LET b == last'.crystalSpawn.lane
            pattern == CrystalPatterns[last'.arg + 1]
            n == Len(pattern)
            free == Cardinality({i \in CrystalIds : ~crystalPool[i].isActive})
            m == IF n < free THEN n ELSE free
            old == Len(crystals)
        IN /\ n \in {3, 5}
           /\ Len(crystals') = old + m
           /\ SubSeq(crystals', 1, old) = crystals
           /\ \A k \in 1 .. m :
                LET id == crystals'[old + k]
                IN /\ ~crystalPool[id].isActive
                   /\ crystalPool'[id].isActive
                   /\ crystalPool'[id].lane = (b + pattern[k].laneOffset) % 3
                   /\ crystalPool'[id].lane \in {0, 1, 2}
                   /\ crystalPool'[id].z = -13000 - pattern[k].zOffset
           /\ \A k1, k2 \in 1 .. m : k1 # k2 => crystals'[old + k1] # crystals'[old + k2]
           /\ \A i \in CrystalIds :
                i \notin {crystals'[old + k] : k \in 1 .. m}
                  => crystalPool'[i] = crystalPool[i]
           /\ gameState' = gameState
           /\ crystalCountAtom' = crystalCountAtom]_vars

\* a zigzag from lane 0 has just placed its first four points (the fourth in
\* lane 2, one lane to the left of lane 0) and skipped the fifth: the pool ran out
C26_Witness ==
  /\ last.op = "spawnCrystalPattern"
  /\ last.arg = 1
  /\ last.crystalSpawn.lane = 0
  /\ last.crystalSpawn.placed = 4
  /\ last.crystalSpawn.starved
  /\ crystalPool[crystals[Len(crystals)]].lane = 2
  /\ \A i \in CrystalIds : crystalPool[i].isActive

\* C27: an obstacle spawned while the distance is at most 500 is a WALL, built as
\* a single wall at its lane, also when the slot it reuses was a DOUBLE_WALL
\* before; a DOUBLE_WALL is spawned only at a distance above 500.
C27_WallsUntilDoubleWallDistance ==
  [][(last'.op = "spawnObstacle" /\ last'.obstacleSpawn.spawned)
     => LET o == obstaclePool'[obstacles'[Len(obstacles')]]
        IN /\ o.isActive
           /\ o.type \in {"WALL", "DOUBLE_WALL"}
           /\ last'.distanceAt <= 50000 => o.type = "WALL"
           /\ o.type = "DOUBLE_WALL" => last'.distanceAt > 50000
           /\ o.type = "WALL"
                => /\ ObstacleBox(o).x0 = LaneX(o.lane) - WallHalfWidth
                   /\ ObstacleBox(o).x1 = LaneX(o.lane) + WallHalfWidth]_vars

\* a slot that was a double wall in the session before has just been reused, at
\* a distance of at most 500, and is a wall
C27_Witness ==
  /\ last.op = "spawnObstacle"
  /\ last.obstacleSpawn.spawned
  /\ last.slotBefore.type = "DOUBLE_WALL"
  /\ last.distanceAt <= 50000
  /\ obstaclePool[obstacles[Len(obstacles)]].type = "WALL"

\* C28: every active DOUBLE_WALL of lane L has its two walls at the lateral
\* positions of exactly the two lanes other than L, whatever its slot was used
\* for before.
C28_DoubleWallBlocksOtherLanes ==
  \A i \in ObstacleIds :
    (obstaclePool[i].isActive /\ obstaclePool[i].type = "DOUBLE_WALL")
      => WallPositions(obstaclePool[i])
           = {LaneX(b) : b \in LaneIds \ {obstaclePool[i].lane}}

\* C29: in every session, while the game time counted from the start of the
\* session is below 4.0 no obstacle is active, and while it is below 2.0 no
\* crystal is active: the two delays are armed anew by every start, which also
\* clears what the session before left on the track.
C29_GraceDelays ==
  /\ gameTime < 400
       => /\ obstacles = <<>>
          /\ \A i \in ObstacleIds : ~obstaclePool[i].isActive
  /\ gameTime < 200
       => /\ crystals = <<>>
          /\ \A i \in CrystalIds : ~crystalPool[i].isActive
  /\ (gameState = "playing" /\ obstacles = <<>> /\ hist.avoided = 0
       /\ hist.collisionCalls = 0)
       => nextObstacleTime = 400
  /\ gameState = "playing" /\ gameTime < 200 => nextCrystalTime = 200

\* the second session is under way and a frame has been played inside the
\* delays, after a first session that ended on an obstacle
C29_Witness ==
  /\ session = 2
  /\ gameState = "playing"
  /\ last.op = "tick"
  /\ gameTime > 0
  /\ gameTime < 200
  /\ obstacles = <<>>
  /\ crystals = <<>>
  /\ isExploding

\* C30: a frame, or a call of spawnObstacle(), activates at most one obstacle;
\* when it spawns at distance d, with f = min(d / 1000, 1), the due time has come
\* and the next spawn is due after an interval of at least max(3 - f, 1.5) and
\* less than max(6 - 2f, 3.0) from the current game time; neither bound is larger
\* at a larger distance; the new due time is at least the minimum interval after
\* the old one, so two spawns are at least the minimum interval apart.
C30_ObstacleSpawnInterval ==
  [][last'.op \in {"spawnObstacle", "tick"}
     => LET new == {i \in ObstacleIds :
                      ~obstaclePool[i].isActive /\ obstaclePool'[i].isActive}
            F(x) == IF x \div 100 < 1000 THEN x \div 100 ELSE 1000
            Lo(x) == IF 300 - F(x) \div 10 > 150 THEN 300 - F(x) \div 10 ELSE 150
            Hi(x) == IF 600 - (2 * F(x)) \div 10 > 300
                     THEN 600 - (2 * F(x)) \div 10 ELSE 300
            d == getDistance(hoverboard)
        IN /\ Cardinality(new) <= 1
           /\ Len(obstacles') <= Len(obstacles) + 1
           /\ last'.obstacleSpawn.spawned
                => /\ Cardinality(new) = 1
                   /\ gameTime' >= nextObstacleTime
                   /\ nextObstacleTime' - gameTime' >= Lo(d)
                   /\ nextObstacleTime' - gameTime' < Hi(d)
                   /\ nextObstacleTime' >= nextObstacleTime + Lo(d)
                   /\ \A x \in SlotDistances :
                        /\ x >= d => Lo(x) <= Lo(d) /\ Hi(x) <= Hi(d)
                        /\ x <= d => Lo(x) >= Lo(d) /\ Hi(x) >= Hi(d)
           /\ ~last'.obstacleSpawn.spawned
                => new = {} /\ nextObstacleTime' = nextObstacleTime]_vars

\* a second obstacle has just been spawned at distance 2500, where the factor is
\* capped at 1: the next one is due 3.0 later, between the bounds 2.0 and 4.0
C30_Witness ==
  /\ last.op = "spawnObstacle"
  /\ last.obstacleSpawn.spawned
  /\ last.distanceAt = 250000
  /\ nextObstacleTime - gameTime = 300
  /\ Len(obstacles) = 2

C32_CountersFrozenAfterCrash ==
  [][/\ (last'.op = "tick" /\ last'.handled > 0)
          => /\ crystalCountAtom' = last'.countBefore
             /\ scoreAtom' = last'.scoreAtCheck
             /\ distanceAtom' = distanceAtom
     /\ (gameStateAtom = "gameOver" /\ last'.op # "restart")
          => /\ crystalCountAtom' = crystalCountAtom
             /\ scoreAtom' = scoreAtom
             /\ distanceAtom' = distanceAtom]_vars

\* C33: the move cooldown of the board is never negative: update(dt) takes dt
\* off it and stops at zero.
C33_CooldownNeverNegative ==
  /\ hoverboard.moveCooldown >= 0
  /\ last.op = "update"
       => hoverboard.moveCooldown
            = (IF last.before.moveCooldown - last.dt > 0
               THEN last.before.moveCooldown - last.dt ELSE 0)

\* C34: the board's target is the offset of its current lane and its lateral
\* position stays within [-2.5, 2.5]; an update(dt) moves the position toward
\* the target by min(lateralSpeed * dt, distance left) when more than 0.01 is
\* left, and not at all otherwise: never away from the target, never past it,
\* and by a positive amount for a positive dt, so the distance left shrinks at
\* every update until it is at most 0.01.
C34_LateralApproach ==
  /\ hoverboard.targetX = LaneX(hoverboard.currentLane)
  /\ hoverboard.posX >= -250
  /\ hoverboard.posX <= 250
  /\ last.op = "update"
       => LET left == last.before.targetX - last.before.posX
              dist == IF left < 0 THEN -left ELSE left
              step == (1200 * last.dt) \div 100
              now == hoverboard.targetX - hoverboard.posX
              distNow == IF now < 0 THEN -now ELSE now
          IN /\ hoverboard.targetX = last.before.targetX
             /\ step > 0
             /\ dist > 1 => distNow = dist - (IF step < dist THEN step ELSE dist)
             /\ dist > 1 => distNow < dist
             /\ dist <= 1 => hoverboard.posX = last.before.posX
             /\ left > 0 => now >= 0
             /\ left < 0 => now <= 0
             /\ (dist > 1 /\ step >= dist) => hoverboard.posX = hoverboard.targetX

\* an update has just brought the board, which was on its way, onto the offset
\* of the left lane
C34_Witness ==
  /\ last.op = "update"
  /\ hoverboard.currentLane = 0
  /\ hoverboard.posX = -250
  /\ last.before.posX > -250
  /\ last.before.posX < 0

\* C35: the click that starts a game reaches the scene's tap handler after the
\* transition into playing and changes no lane: the board is left in the centre
\* lane with no cooldown running and the ignore flag is used up. Every other tap
\* or click while playing issues one moveLeft or moveRight command (it changes
\* the lane by one whenever the board is in the centre lane with the cooldown
\* run down, and changes nothing but the board), and a tap while the session is
\* idle or gameOver changes nothing at all.
C35_TapsSteerAfterStartClick ==
  [][ /\ last'.op = "start"
          => /\ gameState' = "playing"
             /\ ~ignoreNextTap'
             /\ hoverboard' = startMoving(hoverboard)
      /\ (gameState = "playing" => ~ignoreNextTap)
      /\ (last'.op = "input" /\ keyStates' = keyStates /\ gameState = "playing")
          => /\ hoverboard' \in {moveLeft(hoverboard), moveRight(hoverboard)}
             /\ ((hoverboard.currentLane = 1 /\ hoverboard.moveCooldown <= 0)
                  => (/\ Abs(hoverboard'.currentLane - hoverboard.currentLane) = 1
                      /\ hoverboard'.moveCooldown = moveCooldownDuration))
             /\ gameState' = "playing"
             /\ obstacles' = obstacles /\ crystals' = crystals
      /\ (last'.op = "input" /\ keyStates' = keyStates /\ gameState # "playing")
          => /\ hoverboard' = hoverboard
             /\ ignoreNextTap' = ignoreNextTap
             /\ gameState' = gameState]_vars

\* the first tap after the start click moved the board out of the centre lane,
\* in the second session
C35_Witness ==
  /\ last.op = "input"
  /\ gameState = "playing"
  /\ session = 2
  /\ hoverboard.currentLane = 2
  /\ hoverboard.moveCooldown = moveCooldownDuration
  /\ gameTime = 0

\* C36: in every reachable state an obstacle is in the scene's list of active
\* obstacles exactly when its own active flag is set, a crystal is in the list of
\* active crystals exactly when its own flag is set, and neither list holds an
\* entity twice.
C36_ActiveListsMatchFlags ==
  /\ \A o \in ObstacleIds :
        obstaclePool[o].isActive <=> \E i \in 1 .. Len(obstacles) : obstacles[i] = o
  /\ \A c \in CrystalIds :
        crystalPool[c].isActive <=> \E i \in 1 .. Len(crystals) : crystals[i] = c
  /\ \A i, j \in 1 .. Len(obstacles) : obstacles[i] = obstacles[j] => i = j
  /\ \A i, j \in 1 .. Len(crystals) : crystals[i] = crystals[j] => i = j

\* a tick of the second session collected one crystal out of several and retired
\* another, with an obstacle on the track
C36_Witness ==
  /\ last.op = "tick"
  /\ session = 2
  /\ last.collectedNow # {}
  /\ last.retiredCrystals # {}
  /\ crystals # <<>>
  /\ obstacles # <<>>

\* C37: an obstacle is never retired as past the player, with the avoidance
\* bonus, without having been inside the collision window (-5 < z < 8) at the
\* collision check of some tick since it was spawned.
C37_RetiredOnlyAfterWindow ==
  last.op = "tick" => \A r \in last.retiredObstacles : r.id \in hist.windowed

====
